---- MODULE Spec2Model ----
(***************************************************************************)
(* Model of the insurance-claim ingestion pipeline:                        *)
(*   src/ai_extractor.py  field cleaners, the extraction strategy chain,   *)
(*                        the payment-advice override and the financial    *)
(*                        reconciliation (apply_financial_formulas);       *)
(*   src/email_reader.py  process_single_email, the merge/upsert resolver  *)
(*                        writing the claims, claim_history and            *)
(*                        processing_logs tables of src/db.py.             *)
(*                                                                         *)
(* Representation.                                                         *)
(*  - A Python str is a tuple of one-character strings, so that strip(),   *)
(*    lower(), len() and the `in` substring test are computed and not      *)
(*    assumed.  Python None in a string-valued field is the one-element    *)
(*    tuple Null, whose element is no character.                           *)
(*  - A raw (extracted) amount is a tagged value: None, a number or a str. *)
(*    A number counts tenths of a currency unit (Unit = 10), so "12.5"    *)
(*    and the 1-unit tolerance of the rejected-amount rule are exact.      *)
(*  - A table is the sequence of its rows in insertion order.              *)
(***************************************************************************)
EXTENDS Integers, Sequences, FiniteSets, TLC

VARIABLES
    claims,     \* table claims (db.Claim)
    history,    \* table claim_history (db.ClaimHistory)
    logs,       \* table processing_logs (db.ProcessingLog)
    steps,      \* number of messages handed to process_single_email so far
    ev,         \* what the last call of process_single_email did
    arg,        \* input of the pure function under study; per worker, its message
    res,        \* its result; per worker, its session
    pc          \* "call" before, "ret" after the function has been applied;
                \* per worker, the statement it has reached

vars == <<claims, history, logs, steps, ev, arg, res, pc>>
ledger == <<claims, history, logs, steps, ev>>
harness == <<arg, res, pc>>

---------------------------------------------------------------------------
(* Python strings *)

Null == <<"None">>

Digits == {"0", "1", "2", "3", "4", "5", "6", "7", "8", "9"}
Whitespace == {" ", "\n", "\t", "\r"}

UpperCase == <<"A", "B", "C", "D", "E", "F", "G", "H", "I", "J", "K", "L", "M",
               "N", "O", "P", "Q", "R", "S", "T", "U", "V", "W", "X", "Y", "Z">>
LowerCase == <<"a", "b", "c", "d", "e", "f", "g", "h", "i", "j", "k", "l", "m",
               "n", "o", "p", "q", "r", "s", "t", "u", "v", "w", "x", "y", "z">>

Max(a, b) == IF a >= b THEN a ELSE b
Abs(a) == IF a >= 0 THEN a ELSE 0 - a

\* bool(x) of a str-or-None value: None and "" are falsy
Truthy(s) == s # Null /\ s # <<>>

\* x or y
Or(x, y) == IF Truthy(x) THEN x ELSE y

lower_char(c) ==
    IF \E i \in 1..26 : UpperCase[i] = c
    THEN LowerCase[CHOOSE i \in 1..26 : UpperCase[i] = c]
    ELSE c

\* str.lower()
lower(s) == [i \in 1..Len(s) |-> lower_char(s[i])]

\* str(x).lower(): str(None) is "None"
str_lower(s) == IF s = Null THEN <<"n", "o", "n", "e">> ELSE lower(s)

\* str.strip()
strip(s) ==
    LET keep == {i \in 1..Len(s) : s[i] \notin Whitespace}
    IN  IF keep = {} THEN <<>>
        ELSE LET lo == CHOOSE i \in keep : \A j \in keep : i <= j
                 hi == CHOOSE i \in keep : \A j \in keep : i >= j
             IN  SubSeq(s, lo, hi)

\* str.isdigit(): non-empty and every character a digit
isdigit(s) == s # <<>> /\ \A i \in 1..Len(s) : s[i] \in Digits

\* k in s, the substring test
Contains(s, k) ==
    \E i \in 0..(Len(s) - Len(k)) : \A j \in 1..Len(k) : s[i + j] = k[j]

---------------------------------------------------------------------------
(* Amounts *)

\* one currency unit, in tenths: the tolerance 1 of the rejected-amount rule
Unit == 10

NoneV == [t |-> "none", n |-> 0, s |-> <<>>]
Num(n) == [t |-> "num", n |-> n, s |-> <<>>]
Str(s) == [t |-> "str", n |-> 0, s |-> s]
\* a JSON array or object where an amount is expected
Arr == [t |-> "array", n |-> 0, s |-> <<>>]

DigitVal(c) == CHOOSE d \in 0..9 : <<"0", "1", "2", "3", "4", "5", "6", "7", "8", "9">>[d + 1] = c

RECURSIVE IntOf(_)
IntOf(ds) == IF ds = <<>> THEN 0
             ELSE 10 * IntOf(SubSeq(ds, 1, Len(ds) - 1)) + DigitVal(ds[Len(ds)])

\* float(s) of a str of digits and dots: [ok, v]; ok is FALSE where Python
\* raises ValueError (no digit, or more than one dot).  The value is exact
\* to one fractional digit, which is all the strings of RawStrings carry.
parse_float(s) ==
    LET dots == {i \in 1..Len(s) : s[i] = "."}
        dot  == IF dots = {} THEN Len(s) + 1 ELSE CHOOSE i \in dots : TRUE
        ip   == SubSeq(s, 1, dot - 1)
        fp   == SubSeq(s, dot + 1, Len(s))
    IN  IF Cardinality(dots) > 1 \/ (ip = <<>> /\ fp = <<>>)
        THEN [ok |-> FALSE, v |-> 0]
        ELSE [ok |-> TRUE,
              v  |-> Unit * IntOf(ip) + (IF fp = <<>> THEN 0 ELSE DigitVal(fp[1]))]

\* step 1 of apply_financial_formulas, for one field
coerce_amount(val) ==
    IF val.t = "str"
    THEN LET cleaned == SelectSeq(val.s, LAMBDA c : c \in Digits \cup {"."})
         IN  IF cleaned = <<>> THEN 0
             ELSE IF parse_float(cleaned).ok THEN parse_float(cleaned).v ELSE 0
    ELSE IF val.t = "none" THEN 0
    ELSE val.n

---------------------------------------------------------------------------
(* Field cleaners of ai_extractor.py *)

NoneLike == {<<"n", "o", "n", "e">>, <<"n", "/", "a">>, <<"n", "u", "l", "l">>,
             <<"u", "n", "k", "n", "o", "w", "n">>, <<>>}

clean_none_string(val) ==
    IF val = Null THEN Null
    ELSE IF strip(lower(val)) \in NoneLike THEN Null
    ELSE val

junk_values == {<<"e", "r", "e", "n", "c", "e">>, <<"g", "r", "o", "s", "s">>,
                <<"c", "l", "a", "i", "m", " ", "n", "o">>,
                <<"r", "e", "f", " ", "n", "o">>,
                <<"r", "e", "m", "a", "r", "k", "s">>, <<"b", "i", "l", "l">>,
                <<"i", "n", "v", "o", "i", "c", "e">>, <<"n", "o", "n", "e">>,
                <<"u", "n", "k", "n", "o", "w", "n">>, <<"n", "u", "l", "l">>,
                <<"d", "e", "t", "a", "i", "l", "s">>, <<"s", "l", " ", "n", "o">>,
                <<"s", "t", "a", "t", "u", "s">>}

\* a cleaner that rejects every short value, the purely numeric ones too
clean_claim_number_rejects_short(claim_no) ==
    IF ~Truthy(claim_no) THEN claim_no
    ELSE LET val == lower(strip(claim_no))
         IN  IF val \in junk_values THEN Null
             ELSE IF Len(val) < 4 THEN Null
             ELSE strip(claim_no)

clean_claim_number(claim_no) ==
    IF ~Truthy(claim_no) THEN claim_no
    ELSE LET val == lower(strip(claim_no))
         IN  IF val \in junk_values THEN Null
             ELSE IF Len(val) < 4 /\ ~isdigit(val) THEN Null
             ELSE strip(claim_no)

\* The thirteen substitutions of noise_patterns leave the names of
\* PatientNames unchanged (none carries a label prefix, a trailing
\* "Insured"/"Patient"/"Policy No ..." or a boilerplate phrase), so on them
\* the function is its guard and its two strip() calls.
clean_patient_name(name) ==
    IF ~Truthy(name) THEN name ELSE strip(strip(name))

\* float(val) of step 1 raises TypeError for a value that is neither a str,
\* None nor a number
float_raises(val) == val.t = "array"

---------------------------------------------------------------------------
(* apply_financial_formulas *)

Statuses == {"Approved", "Settled", "Rejected", "Pending", "Queried", "PreAuthorized"}
StatusNone == "<None>"      \* "claim_status": null
StatusAbsent == "<absent>"  \* no "claim_status" key

financial_fields == {"approved_amount", "settled_amount", "rejected_amount",
                     "total_bill_amount", "claim_amount", "patient_payable_amount",
                     "balance_amount", "outstanding_amount"}

\* steps 1, 1b and 2: every financial field a float, text fields sanitized.
\* The date fields hold canonical YYYY-MM-DD values or None, which
\* normalize_date_str returns unchanged.
normalize_fields(data) ==
    LET cn == clean_none_string(data.claim_number)
        pn == clean_none_string(data.patient_name)
    IN  [f \in DOMAIN data |->
            IF f \in financial_fields THEN coerce_amount(data[f])
            ELSE IF f = "claim_number"
                 THEN IF Truthy(cn) THEN clean_claim_number(cn) ELSE cn
            ELSE IF f = "patient_name"
                 THEN IF Truthy(pn) THEN clean_patient_name(pn) ELSE pn
            ELSE IF f \in {"uhid_mrn", "insurance_company", "tpa_name", "remarks"}
                 THEN clean_none_string(data[f])
            ELSE data[f]]

\* step 3: total bill and claim amount fall back on each other
backfill_amounts(data) ==
    LET total == IF data.total_bill_amount = 0
                 THEN IF data.claim_amount > 0 THEN data.claim_amount
                      ELSE IF data.settled_amount > 0 THEN data.settled_amount
                      ELSE data.total_bill_amount
                 ELSE data.total_bill_amount
        claim == IF data.claim_amount = 0 THEN total ELSE data.claim_amount
    IN  [data EXCEPT !.total_bill_amount = total, !.claim_amount = claim]

\* Rule 1 without its tolerance: the extracted value is always replaced
rejected_rule_always_recomputed(data) ==
    Max(0, data.total_bill_amount - data.approved_amount)

\* Rule 1: rejected = total - approved, unless the extracted value is within 1
rejected_rule(data) ==
    LET calculated_rejected == Max(0, data.total_bill_amount - data.approved_amount)
    IN  IF data.rejected_amount = 0
           \/ Abs(data.rejected_amount - calculated_rejected) > Unit
        THEN calculated_rejected
        ELSE data.rejected_amount

\* balance_rule with a Pending branch that leaves settled_amount untouched
balance_rule_pending_keeps_settled(data, status) ==
    LET total    == data.total_bill_amount
        approved == data.approved_amount
        settled  == data.settled_amount
    IN  IF status = "Pending"
        THEN [data EXCEPT !.balance_amount = total,
                          !.approved_amount = 0,
                          !.rejected_amount = 0,
                          !.patient_payable_amount = 0]
        ELSE IF status = "Settled"
        THEN [data EXCEPT !.balance_amount = 0,
                          !.patient_payable_amount = Max(0, total - settled)]
        ELSE [data EXCEPT !.balance_amount = Max(0, approved - settled)]

\* balance_rule with a Settled branch that keeps the baseline patient payable
balance_rule_settled_keeps_baseline(data, status) ==
    LET total    == data.total_bill_amount
        approved == data.approved_amount
        settled  == data.settled_amount
    IN  IF status = "Pending"
        THEN [data EXCEPT !.balance_amount = total,
                          !.approved_amount = 0,
                          !.settled_amount = 0,
                          !.rejected_amount = 0,
                          !.patient_payable_amount = 0]
        ELSE IF status = "Settled"
        THEN [data EXCEPT !.balance_amount = 0]
        ELSE [data EXCEPT !.balance_amount = Max(0, approved - settled)]

\* balance_rule whose default branch measures the balance against the bill
balance_rule_default_from_total(data, status) ==
    LET total    == data.total_bill_amount
        approved == data.approved_amount
        settled  == data.settled_amount
    IN  IF status = "Pending"
        THEN [data EXCEPT !.balance_amount = total,
                          !.approved_amount = 0,
                          !.settled_amount = 0,
                          !.rejected_amount = 0,
                          !.patient_payable_amount = 0]
        ELSE IF status = "Settled"
        THEN [data EXCEPT !.balance_amount = 0,
                          !.patient_payable_amount = Max(0, total - settled)]
        ELSE IF status = "Approved"
        THEN [data EXCEPT !.balance_amount = Max(0, approved - settled)]
        ELSE [data EXCEPT !.balance_amount = Max(0, total - settled)]

\* balance_rule whose Settled branch also books the approved amount as settled
balance_rule_settled_books_approved(data, status) ==
    LET total    == data.total_bill_amount
        approved == data.approved_amount
        settled  == data.settled_amount
    IN  IF status = "Pending"
        THEN [data EXCEPT !.balance_amount = total,
                          !.approved_amount = 0,
                          !.settled_amount = 0,
                          !.rejected_amount = 0,
                          !.patient_payable_amount = 0]
        ELSE IF status = "Settled"
        THEN [data EXCEPT !.balance_amount = 0,
                          !.settled_amount = approved,
                          !.patient_payable_amount = Max(0, total - settled)]
        ELSE [data EXCEPT !.balance_amount = Max(0, approved - settled)]

\* Rule 3: the status branches; total, approved and settled are the values
\* read before the branch
balance_rule(data, status) ==
    LET total    == data.total_bill_amount
        approved == data.approved_amount
        settled  == data.settled_amount
    IN  IF status = "Pending"
        THEN [data EXCEPT !.balance_amount = total,
                          !.approved_amount = 0,
                          !.settled_amount = 0,
                          !.rejected_amount = 0,
                          !.patient_payable_amount = 0]
        ELSE IF status = "Settled"
        THEN [data EXCEPT !.balance_amount = 0,
                          !.patient_payable_amount = Max(0, total - settled)]
        ELSE IF status = "Approved"
        THEN [data EXCEPT !.balance_amount = Max(0, approved - settled)]
        ELSE [data EXCEPT !.balance_amount = Max(0, approved - settled)]

\* apply_financial_formulas without the final re-mapping of outstanding_amount
apply_financial_formulas_keeps_outstanding(data) ==
    LET d1 == backfill_amounts(normalize_fields(data))
        status == IF d1.claim_status = StatusAbsent THEN "Pending" ELSE d1.claim_status
        d2 == [d1 EXCEPT !.rejected_amount = rejected_rule(d1),
                         !.patient_payable_amount =
                             Max(0, d1.total_bill_amount - d1.approved_amount)]
    IN  balance_rule(d2, status)

apply_financial_formulas(data) ==
    LET d1 == backfill_amounts(normalize_fields(data))
        status == IF d1.claim_status = StatusAbsent THEN "Pending" ELSE d1.claim_status
        d2 == [d1 EXCEPT !.rejected_amount = rejected_rule(d1),
                         !.patient_payable_amount =
                             Max(0, d1.total_bill_amount - d1.approved_amount)]
        d3 == balance_rule(d2, status)
    IN  [d3 EXCEPT !.outstanding_amount = d3.balance_amount]

---------------------------------------------------------------------------
(* Drafts: the dict a strategy of extract_claim_data produces *)

NoCoverage == [t |-> "absent", n |-> 0, s |-> <<>>]

\* a draft with nothing extracted
EmptyDraft ==
    [patient_name |-> Null, uhid_mrn |-> Null, insurance_company |-> Null,
     tpa_name |-> Null, claim_number |-> Null, claim_status |-> StatusAbsent,
     claim_type |-> Null, claim_date |-> Null, settlement_date |-> Null,
     submitted_date |-> Null, remarks |-> Null, tat_followup_date |-> Null,
     approved_amount |-> NoneV, settled_amount |-> NoneV, rejected_amount |-> NoneV,
     total_bill_amount |-> NoneV, claim_amount |-> NoneV,
     patient_payable_amount |-> NoneV, balance_amount |-> NoneV,
     outstanding_amount |-> NoneV, insurance_coverage_percent |-> NoCoverage]

\* no result yet
NoDraft == [claim_status |-> "<no result>"]

---------------------------------------------------------------------------
(* Inputs of the reconciliation study *)

\* amounts 0, 0.5, 1.0, ... up to MaxAmt halves of a unit
MaxAmt == 3
Amounts == {5 * k : k \in 0..MaxAmt}

DraftStatuses == Statuses \cup {StatusNone, StatusAbsent}

\* what a model may put in a field the engine overwrites
RawOthers == {NoneV, Num(25), Str(<<"7", ",", "5">>)}

\* values of an amount field that are not plain non-negative numbers:
\* null, a negative number, "1.5", "Rs.5", "1,0", "-5", "N/A", "1.2.3", "."
RawSpecials ==
    {NoneV, Num(0 - 5), Num(0 - 20),
     Str(<<"1", ".", "5">>), Str(<<"R", "s", ".", "5">>), Str(<<"1", ",", "0">>),
     Str(<<"-", "5">>), Str(<<"N", "/", "A">>), Str(<<"1", ".", "2", ".", "3">>),
     Str(<<".">>)}

MainAmountFields == <<"total_bill_amount", "claim_amount", "approved_amount",
                      "settled_amount", "rejected_amount">>

GridDrafts ==
    {[EmptyDraft EXCEPT !.claim_status = st,
                        !.total_bill_amount = Num(t), !.claim_amount = Num(c),
                        !.approved_amount = Num(a), !.settled_amount = Num(se),
                        !.rejected_amount = Num(r),
                        !.patient_payable_amount = o, !.balance_amount = o,
                        !.outstanding_amount = o] :
        st \in DraftStatuses, t \in Amounts, c \in Amounts, a \in Amounts,
        se \in Amounts, r \in Amounts, o \in RawOthers}

SpecialDrafts ==
    {[[EmptyDraft EXCEPT !.claim_status = st,
                         !.total_bill_amount = Num(t), !.claim_amount = Num(0),
                         !.approved_amount = Num(a), !.settled_amount = Num(se),
                         !.rejected_amount = Num(0)]
        EXCEPT ![MainAmountFields[i]] = v] :
        st \in DraftStatuses, t \in {0, 20}, a \in {0, 10}, se \in {0, 10},
        i \in 1..5, v \in RawSpecials}

FinInputs == GridDrafts \cup SpecialDrafts

\* ev before any message is processed
NoEvent ==
    [kind |-> "none", uid |-> 0, how |-> "none", id |-> 0, raw |-> EmptyDraft,
     again |-> FALSE]

LedgerIdle ==
    /\ claims = <<>>
    /\ history = <<>>
    /\ logs = <<>>
    /\ steps = 0
    /\ ev = NoEvent

InitFin ==
    /\ arg \in FinInputs
    /\ res = NoDraft
    /\ pc = "call"
    /\ LedgerIdle

\* the call apply_financial_formulas(data, text_content) on a non-empty draft
Reconcile ==
    /\ pc = "call"
    /\ res' = apply_financial_formulas(arg)
    /\ pc' = "ret"
    /\ UNCHANGED <<arg, ledger>>

\* the returned dict, as the argument of a further call: its amounts are floats
as_draft(data) ==
    [f \in DOMAIN data |-> IF f \in financial_fields THEN Num(data[f]) ELSE data[f]]

\* the call apply_financial_formulas(result, text_content) on the dict the
\* first call returned
Reapply ==
    /\ pc = "ret"
    /\ res' = apply_financial_formulas(as_draft(res))
    /\ pc' = "again"
    /\ UNCHANGED <<arg, ledger>>

NextFin == Reconcile \/ Reapply

SpecFin == InitFin /\ [][NextFin]_vars

---------------------------------------------------------------------------
(* Reconciliation: the status branches (C1, C2, C3) *)

\* the gross bill of the input after coercion and backfill (steps 1 and 3)
GrossBill(data) ==
    LET t == coerce_amount(data.total_bill_amount)
        c == coerce_amount(data.claim_amount)
        s == coerce_amount(data.settled_amount)
    IN  IF t # 0 THEN t ELSE IF c > 0 THEN c ELSE IF s > 0 THEN s ELSE t

\* C1: for a draft whose claim_status is "Pending" the result has approved,
\* settled, rejected and patient-payable amounts 0 and its balance is the
\* gross bill after backfill, whatever sub-amounts were extracted.
C1_PendingZeroesSubAmounts ==
    (pc = "ret" /\ arg.claim_status = "Pending") =>
        /\ res.approved_amount = 0
        /\ res.settled_amount = 0
        /\ res.rejected_amount = 0
        /\ res.patient_payable_amount = 0
        /\ res.total_bill_amount = GrossBill(arg)
        /\ res.balance_amount = res.total_bill_amount

\* Pending, bill 1.5, approved 1.0 as extracted: approved 0, balance 1.5
C1_Witness ==
    /\ pc = "ret"
    /\ arg.claim_status = "Pending"
    /\ arg.total_bill_amount = Num(15)
    /\ arg.approved_amount = Num(10)
    /\ arg.settled_amount = Num(5)
    /\ res.approved_amount = 0
    /\ res.balance_amount = 15

\* C2: for a draft whose claim_status is "Settled" the result has balance 0
\* and patient payable max(0, total bill after backfill - settled).
C2_SettledBalanceZero ==
    (pc = "ret" /\ arg.claim_status = "Settled") =>
        /\ res.balance_amount = 0
        /\ res.total_bill_amount = GrossBill(arg)
        /\ res.settled_amount = coerce_amount(arg.settled_amount)
        /\ res.patient_payable_amount =
               Max(0, res.total_bill_amount - res.settled_amount)

\* Settled, bill 1.5, settled 1.0, approved 0.5: balance 0, patient payable 0.5
C2_Witness ==
    /\ pc = "ret"
    /\ arg.claim_status = "Settled"
    /\ arg.total_bill_amount = Num(15)
    /\ arg.settled_amount = Num(10)
    /\ arg.approved_amount = Num(5)
    /\ res.balance_amount = 0
    /\ res.patient_payable_amount = 5

\* C3: for a draft whose claim_status is Approved, Rejected, Queried or
\* PreAuthorized the result has balance max(0, approved - settled).
C3_BalanceIsApprovedLessSettled ==
    (pc = "ret" /\ arg.claim_status \in {"Approved", "Rejected", "Queried", "PreAuthorized"}) =>
        /\ res.approved_amount = coerce_amount(arg.approved_amount)
        /\ res.settled_amount = coerce_amount(arg.settled_amount)
        /\ res.balance_amount = Max(0, res.approved_amount - res.settled_amount)

\* Queried, bill 0, approved 1.5, settled 0.5: balance 1.0
C3_Witness ==
    /\ pc = "ret"
    /\ arg.claim_status = "Queried"
    /\ arg.total_bill_amount = Num(0)
    /\ arg.claim_amount = Num(0)
    /\ arg.approved_amount = Num(15)
    /\ arg.settled_amount = Num(5)
    /\ res.balance_amount = 10

---------------------------------------------------------------------------
(* Extraction orchestrator of ai_extractor.py *)

payment_keywords ==
    {<<"p", "a", "y", "m", "e", "n", "t", " ", "a", "d", "v", "i", "c", "e">>,
     <<"n", "e", "t", " ", "p", "a", "y", "a", "b", "l", "e">>,
     <<"u", "t", "r", " ", "n", "u", "m", "b", "e", "r">>,
     <<"u", "t", "r", " ", "n", "o">>,
     <<"n", "e", "f", "t">>,
     <<"r", "t", "g", "s">>,
     <<"a", "m", "o", "u", "n", "t", " ", "d", "i", "s", "b", "u", "r", "s", "e", "d">>,
     <<"p", "a", "y", "m", "e", "n", "t", " ", "m", "a", "d", "e">>,
     <<"t", "r", "a", "n", "s", "a", "c", "t", "i", "o", "n", " ", "r", "e", "f", "e", "r", "e", "n", "c", "e">>,
     <<"r", "e", "m", "i", "t", "t", "a", "n", "c", "e", " ", "a", "d", "v", "i", "c", "e">>,
     <<"p", "a", "y", "m", "e", "n", "t", " ", "p", "r", "o", "c", "e", "s", "s", "e", "d">>,
     <<"a", "m", "o", "u", "n", "t", " ", "p", "a", "i", "d">>,
     <<"e", "f", "t">>,
     <<"e", "l", "e", "c", "t", "r", "o", "n", "i", "c", " ", "f", "u", "n", "d", " ", "t", "r", "a", "n", "s", "f", "e", "r">>,
     <<"p", "a", "y", "m", "e", "n", "t", " ", "r", "e", "f", "e", "r", "e", "n", "c", "e">>,
     <<"p", "a", "i", "d", " ", "t", "o", " ", "h", "o", "s", "p", "i", "t", "a", "l">>,
     <<"s", "u", "c", "c", "e", "s", "s", "f", "u", "l", "l", "y", " ", "s", "e", "t", "t", "l", "e", "d">>}

\* Forces "Settled" on a payment advice; data is a non-empty draft here
override_status_for_payment_advice(data, text) ==
    IF ~Truthy(text) THEN data
    ELSE LET lower_text  == lower(text)
             has_payment == Contains(lower_text, <<"p", "a", "y", "m", "e", "n", "t">>)
             has_advice  == Contains(lower_text, <<"a", "d", "v", "i", "c", "e">>)
         IN  IF (\E keyword \in payment_keywords : Contains(lower_text, keyword))
                \/ (has_payment /\ has_advice)
             THEN [data EXCEPT !.claim_status = "Settled"]
             ELSE data

\* json.loads gave {}
EmptyDict == <<>>

isalpha(c) == \E i \in 1..26 : UpperCase[i] = c \/ LowerCase[i] = c

validate_extraction(data) ==
    IF data = EmptyDict THEN FALSE
    ELSE IF ~Truthy(data.patient_name) THEN TRUE
    ELSE LET patient_name_str == strip(data.patient_name)
             bare == SelectSeq(patient_name_str, LAMBDA c : c \notin {".", "-", " "})
         IN  /\ ~isdigit(bare)
             /\ Len(patient_name_str) >= 2
             /\ \E i \in 1..Len(patient_name_str) : isalpha(patient_name_str[i])

settled_words ==
    {<<"p", "a", "y", "m", "e", "n", "t", " ", "s", "e", "t", "t", "l", "e", "d">>,
     <<"s", "e", "t", "t", "l", "e", "m", "e", "n", "t", " ", "p", "r", "o", "c", "e", "s", "s", "e", "d">>,
     <<"p", "a", "y", "m", "e", "n", "t", " ", "m", "a", "d", "e">>,
     <<"a", "m", "o", "u", "n", "t", " ", "d", "i", "s", "b", "u", "r", "s", "e", "d">>,
     <<"p", "a", "i", "d", " ", "o", "u", "t">>,
     <<"e", "f", "t", " ", "p", "r", "o", "c", "e", "s", "s", "e", "d">>,
     <<"s", "e", "t", "t", "l", "e", "d">>,
     <<"p", "a", "y", "m", "e", "n", "t", " ", "a", "d", "v", "i", "c", "e">>,
     <<"n", "e", "t", " ", "p", "a", "y", "a", "b", "l", "e">>,
     <<"u", "t", "r", " ", "n", "u", "m", "b", "e", "r">>,
     <<"u", "t", "r", " ", "n", "o">>,
     <<"n", "e", "f", "t">>}

approved_words ==
    {<<"c", "l", "a", "i", "m", " ", "a", "p", "p", "r", "o", "v", "e", "d">>,
     <<"a", "p", "p", "r", "o", "v", "a", "l", " ", "g", "r", "a", "n", "t", "e", "d">>,
     <<"a", "p", "p", "r", "o", "v", "e", "d", " ", "f", "o", "r">>,
     <<"s", "a", "n", "c", "t", "i", "o", "n", "e", "d">>,
     <<"a", "u", "t", "h", "o", "r", "i", "z", "e", "d">>}

rejected_words ==
    {<<"c", "l", "a", "i", "m", " ", "r", "e", "j", "e", "c", "t", "e", "d">>,
     <<"c", "l", "a", "i", "m", " ", "d", "e", "n", "i", "e", "d">>,
     <<"r", "e", "j", "e", "c", "t", "e", "d", " ", "d", "u", "e", " ", "t", "o">>,
     <<"d", "e", "c", "l", "i", "n", "e", "d">>,
     <<"r", "e", "p", "u", "d", "i", "a", "t", "e", "d">>,
     <<"d", "i", "s", "a", "l", "l", "o", "w", "e", "d">>,
     <<"n", "o", "t", " ", "a", "p", "p", "r", "o", "v", "e", "d">>}

queried_words ==
    {<<"q", "u", "e", "r", "y", " ", "r", "a", "i", "s", "e", "d">>,
     <<"p", "e", "n", "d", "i", "n", "g", " ", "d", "o", "c", "u", "m", "e", "n", "t", "s">>,
     <<"c", "l", "a", "r", "i", "f", "i", "c", "a", "t", "i", "o", "n", " ", "n", "e", "e", "d", "e", "d">>,
     <<"a", "d", "d", "i", "t", "i", "o", "n", "a", "l", " ", "i", "n", "f", "o", "r", "m", "a", "t", "i", "o", "n">>,
     <<"d", "e", "f", "i", "c", "i", "e", "n", "c", "y">>,
     <<"q", "u", "e", "r", "y">>,
     <<"d", "o", "c", "u", "m", "e", "n", "t", " ", "r", "e", "q", "u", "i", "r", "e", "d">>}

AnyIn(words, lower_text) == \E word \in words : Contains(lower_text, word)

\* status tiers that look for the approval phrases before the settled ones
regex_status_approval_first(text) ==
    LET lower_text == lower(text)
    IN  IF AnyIn(approved_words, lower_text) THEN "Approved"
        ELSE IF AnyIn(settled_words, lower_text) THEN "Settled"
        ELSE IF AnyIn(rejected_words, lower_text) THEN "Rejected"
        ELSE IF AnyIn(queried_words, lower_text) THEN "Queried"
        ELSE IF Contains(lower_text, <<"a", "p", "p", "r", "o", "v", "e", "d">>) THEN "Approved"
        ELSE IF Contains(lower_text, <<"r", "e", "j", "e", "c", "t", "e", "d">>) THEN "Rejected"
        ELSE "Pending"

\* the status tiers of extract_claim_data_regex
regex_status(text) ==
    LET lower_text == lower(text)
    IN  IF AnyIn(settled_words, lower_text) THEN "Settled"
        ELSE IF AnyIn(approved_words, lower_text) THEN "Approved"
        ELSE IF AnyIn(rejected_words, lower_text) THEN "Rejected"
        ELSE IF AnyIn(queried_words, lower_text) THEN "Queried"
        ELSE IF Contains(lower_text, <<"a", "p", "p", "r", "o", "v", "e", "d">>) THEN "Approved"
        ELSE IF Contains(lower_text, <<"r", "e", "j", "e", "c", "t", "e", "d">>) THEN "Rejected"
        ELSE "Pending"

\* The texts of Texts carry no labelled value (no "Patient ...:", "Claim No",
\* "TPA", no digit), so every find_val of the fallback returns None, the
\* amounts default to 0 and only the status is derived from the text.
extract_claim_data_regex(text) ==
    [EmptyDraft EXCEPT !.claim_status = regex_status(text),
                       !.approved_amount = Num(0), !.settled_amount = Num(0),
                       !.rejected_amount = Num(0), !.total_bill_amount = Num(0),
                       !.claim_amount = Num(0)]

\* apply_financial_formulas raises on the draft; inside the try block of a
\* model strategy the exception is caught and the chain goes on
apply_financial_formulas_raises(data) ==
    \E f \in financial_fields : float_raises(data[f])

\* a chain that asks the local model before the primary one
extract_claim_data_local_first(text_content, primary, local) ==
    IF ~Truthy(text_content) \/ strip(text_content) = <<>>
    THEN [by |-> "none", data |-> NoDraft]
    ELSE IF /\ local.k = "json" /\ validate_extraction(local.data)
            /\ ~apply_financial_formulas_raises(local.data)
    THEN [by |-> "local", data |-> apply_financial_formulas(local.data)]
    ELSE IF /\ primary.k = "json" /\ validate_extraction(primary.data)
            /\ ~apply_financial_formulas_raises(primary.data)
    THEN [by |-> "primary",
          data |-> apply_financial_formulas(
                       override_status_for_payment_advice(primary.data, text_content))]
    ELSE [by |-> "regex",
          data |-> apply_financial_formulas(extract_claim_data_regex(text_content))]

\* a chain without the regex fallback
extract_claim_data_without_fallback(text_content, primary, local) ==
    IF ~Truthy(text_content) \/ strip(text_content) = <<>>
    THEN [by |-> "none", data |-> NoDraft]
    ELSE IF /\ primary.k = "json" /\ validate_extraction(primary.data)
            /\ ~apply_financial_formulas_raises(primary.data)
    THEN [by |-> "primary",
          data |-> apply_financial_formulas(
                       override_status_for_payment_advice(primary.data, text_content))]
    ELSE IF /\ local.k = "json" /\ validate_extraction(local.data)
            /\ ~apply_financial_formulas_raises(local.data)
    THEN [by |-> "local", data |-> apply_financial_formulas(local.data)]
    ELSE [by |-> "none", data |-> NoDraft]

\* What the two model backends did (the environment of extract_claim_data):
\*   primary.k  "unconfigured"  no OPENAI_API_KEY
\*              "raises"        the call or json.loads raised
\*              "json"          json.loads returned primary.data
\*                              (validation or reconciliation may still
\*                              reject it or raise on it)
\*   local.k    "disabled"      USE_LOCAL_LLM is not "true"
\*              "unloadable"    get_local_llm() returned None
\*              "raises"        generate raised
\*              "badjson"       json.loads raised JSONDecodeError
\*              "json"          json.loads returned local.data
\* The result names the strategy that produced it; by = "none" is the return
\* of None for an empty or whitespace text.
extract_claim_data(text_content, primary, local) ==
    IF ~Truthy(text_content) \/ strip(text_content) = <<>>
    THEN [by |-> "none", data |-> NoDraft]
    ELSE IF /\ primary.k = "json" /\ validate_extraction(primary.data)
            /\ ~apply_financial_formulas_raises(primary.data)
    THEN [by |-> "primary",
          data |-> apply_financial_formulas(
                       override_status_for_payment_advice(primary.data, text_content))]
    ELSE IF /\ local.k = "json" /\ validate_extraction(local.data)
            /\ ~apply_financial_formulas_raises(local.data)
    THEN [by |-> "local", data |-> apply_financial_formulas(local.data)]
    ELSE [by |-> "regex",
          data |-> apply_financial_formulas(extract_claim_data_regex(text_content))]

---------------------------------------------------------------------------
(* Inputs of the extraction study *)

Texts ==
    {\* ''
     <<>>,
     \* '  \n'
     <<" ", " ", "\n">>,
     \* 'hello'
     <<"h", "e", "l", "l", "o">>,
     \* 'Claim approved'
     <<"C", "l", "a", "i", "m", " ", "a", "p", "p", "r", "o", "v", "e", "d">>,
     \* 'NEFT credit done'
     <<"N", "E", "F", "T", " ", "c", "r", "e", "d", "i", "t", " ", "d", "o", "n", "e">>,
     \* 'RTGS sent. Claim approved'
     <<"R", "T", "G", "S", " ", "s", "e", "n", "t", ".", " ", "C", "l", "a", "i", "m", " ", "a", "p", "p", "r", "o", "v", "e", "d">>,
     \* 'Payment Advice'
     <<"P", "a", "y", "m", "e", "n", "t", " ", "A", "d", "v", "i", "c", "e">>,
     \* 'Advice on payment, rejected'
     <<"A", "d", "v", "i", "c", "e", " ", "o", "n", " ", "p", "a", "y", "m", "e", "n", "t", ",", " ", "r", "e", "j", "e", "c", "t", "e", "d">>,
     \* 'query raised'
     <<"q", "u", "e", "r", "y", " ", "r", "a", "i", "s", "e", "d">>,
     \* 'claim rejected'
     <<"c", "l", "a", "i", "m", " ", "r", "e", "j", "e", "c", "t", "e", "d">>,
     \* 'amount paid, not approved'
     <<"a", "m", "o", "u", "n", "t", " ", "p", "a", "i", "d", ",", " ", "n", "o", "t", " ", "a", "p", "p", "r", "o", "v", "e", "d">>,
     \* 'settled'
     <<"s", "e", "t", "t", "l", "e", "d">>,
     \* 'left, declined'
     <<"l", "e", "f", "t", ",", " ", "d", "e", "c", "l", "i", "n", "e", "d">>,
     \* 'approved, declined'
     <<"a", "p", "p", "r", "o", "v", "e", "d", ",", " ", "d", "e", "c", "l", "i", "n", "e", "d">>,
     \* 'claim approved; claim rejected'
     <<"c", "l", "a", "i", "m", " ", "a", "p", "p", "r", "o", "v", "e", "d", ";", " ", "c", "l", "a", "i", "m", " ", "r", "e", "j", "e", "c", "t", "e", "d">>,
     \* 'rejected'
     <<"r", "e", "j", "e", "c", "t", "e", "d">>,
     \* 'approved'
     <<"a", "p", "p", "r", "o", "v", "e", "d">>,
     \* 'query; approved'
     <<"q", "u", "e", "r", "y", ";", " ", "a", "p", "p", "r", "o", "v", "e", "d">>,
     \* 'Claim approved, NEFT done'
     <<"C", "l", "a", "i", "m", " ", "a", "p", "p", "r", "o", "v", "e", "d", ",", " ", "N", "E", "F", "T", " ", "d", "o", "n", "e">>}

\* patient names a model may return: two plausible ones and four that
\* validate_extraction rejects ("12345", "9.5-1", "A", "--")
ModelNames ==
    {Null,
     <<"R", "a", "j", "e", "s", "h", " ", "K", "u", "m", "a", "r">>,
     <<" ", "B", "a", "b", "y", " ", "o", "f", " ", "S", "a", "r", "a", "h">>,
     <<"1", "2", "3", "4", "5">>,
     <<"9", ".", "5", "-", "1">>,
     <<"A">>,
     <<"-", "-">>}

ModelDraft(st, name) ==
    [EmptyDraft EXCEPT !.claim_status = st, !.patient_name = name,
                       !.claim_number = <<"C", "L", "M", "1", "0", "0", "1">>,
                       !.total_bill_amount = Num(20), !.approved_amount = Num(10)]

\* a draft with a plausible patient name whose total bill is a JSON array
BrokenDraft ==
    [ModelDraft("Approved", <<"R", "a", "j", "e", "s", "h", " ", "K", "u", "m", "a", "r">>)
        EXCEPT !.total_bill_amount = Arr]

PrimaryOutcomes ==
    {[k |-> "unconfigured", data |-> EmptyDict], [k |-> "raises", data |-> EmptyDict],
     [k |-> "json", data |-> EmptyDict]}
    \cup {[k |-> "json", data |-> ModelDraft(st, name)] :
             st \in DraftStatuses, name \in ModelNames}
    \cup {[k |-> "json", data |-> BrokenDraft]}

LocalOutcomes ==
    {[k |-> "disabled", data |-> EmptyDict], [k |-> "unloadable", data |-> EmptyDict],
     [k |-> "raises", data |-> EmptyDict], [k |-> "badjson", data |-> EmptyDict],
     [k |-> "json", data |-> EmptyDict]}
    \cup {[k |-> "json", data |-> ModelDraft(st, name)] :
             st \in {"Approved", "Pending", "Settled", StatusNone},
             name \in {Null, <<"R", "a", "j", "e", "s", "h", " ", "K", "u", "m", "a", "r">>,
                       <<"1", "2", "3", "4", "5">>}}
    \cup {[k |-> "json", data |-> BrokenDraft]}

InitExtract ==
    /\ arg \in [text : Texts, primary : PrimaryOutcomes, local : LocalOutcomes]
    /\ res = [by |-> "none", data |-> NoDraft]
    /\ pc = "call"
    /\ LedgerIdle

\* the call extract_claim_data(combined_text)
Extract ==
    /\ pc = "call"
    /\ res' = extract_claim_data(arg.text, arg.primary, arg.local)
    /\ pc' = "ret"
    /\ UNCHANGED <<arg, ledger>>

NextExtract == Extract

SpecExtract == InitExtract /\ [][NextExtract]_vars

---------------------------------------------------------------------------
(* Payment-advice override (C10) *)

\* the text contains a payment-advice keyword, or both "payment" and "advice"
IsPaymentAdvice(text) ==
    \/ \E keyword \in payment_keywords : Contains(lower(text), keyword)
    \/ /\ Contains(lower(text), <<"p", "a", "y", "m", "e", "n", "t">>)
       /\ Contains(lower(text), <<"a", "d", "v", "i", "c", "e">>)

\* C10: for every non-blank text that contains a payment-advice keyword, or
\* both "payment" and "advice", the draft returned by extract_claim_data has
\* claim_status "Settled", whichever strategy produced it.
C10_PaymentAdviceAlwaysSettled ==
    (pc = "ret" /\ strip(arg.text) # <<>> /\ IsPaymentAdvice(arg.text)) =>
        res.data.claim_status = "Settled"

---------------------------------------------------------------------------
(* The ledger: process_single_email of email_reader.py over the tables of db.py *)

\* p_name given to a draft that has a claim number but no patient name
PLACEHOLDER_NAME ==
    <<" ", "H", "o", "s", "p", "i", "t", "a", "l", " ", "P", "a", "y", "m", "e", "n", "t",
      " ", "/", " ", "B", "u", "l", "k", " ", "C", "l", "a", "i", "m">>

\* not p_name or str(p_name).lower() in ["none", "null", "unknown", ""]
no_patient_name(p_name) ==
    \/ ~Truthy(p_name)
    \/ str_lower(p_name) \in {<<"n", "o", "n", "e">>, <<"n", "u", "l", "l">>,
                              <<"u", "n", "k", "n", "o", "w", "n">>, <<>>}

known_garbage_nos ==
    {<<"e", "r", "e", "n", "c", "e">>, <<"g", "r", "o", "s", "s">>, <<"n", "o", "n", "e">>,
     <<"n", "u", "l", "l">>, <<"u", "n", "k", "n", "o", "w", "n">>, <<"r", "e", "f">>,
     <<"c", "l", "m">>}

\* the amounts the merge loop walks, insurance_coverage_percent apart
merge_amount_fields ==
    {"approved_amount", "settled_amount", "rejected_amount", "outstanding_amount",
     "total_bill_amount", "patient_payable_amount", "balance_amount"}

\* extracted_data.get("claim_status"): a missing key reads as None
status_of(data) ==
    IF data.claim_status = StatusAbsent THEN StatusNone ELSE data.claim_status

\* the draft's status taken even when it is None
OrStatus_takes_draft(x, y) == x

OrStatus(x, y) == IF x # StatusNone THEN x ELSE y

\* rows the three lookups of the resolver return, in their order of trial
ByUid(uid) == {i \in DOMAIN claims : claims[i].email_uid = uid}
ByClaimNumber(claim_no) == {i \in DOMAIN claims : claims[i].claim_number = claim_no}
ByPatient(p_name, uhid) ==
    {i \in DOMAIN claims : claims[i].patient_name = p_name /\ claims[i].uhid_mrn = uhid}

\* the three lookups tried in the reverse order
find_existing_claim_name_first(uid, claim_no, p_name, uhid) ==
    IF Truthy(p_name) /\ Truthy(uhid) /\ ByPatient(p_name, uhid) # {}
    THEN [how |-> "name", rows |-> ByPatient(p_name, uhid)]
    ELSE IF Truthy(claim_no) /\ ByClaimNumber(claim_no) # {}
    THEN [how |-> "claim", rows |-> ByClaimNumber(claim_no)]
    ELSE IF ByUid(uid) # {}
    THEN [how |-> "uid", rows |-> ByUid(uid)]
    ELSE [how |-> "none", rows |-> {}]

\* how the existing claim is looked up, and the rows .first() may return
find_existing_claim(uid, claim_no, p_name, uhid) ==
    IF ByUid(uid) # {}
    THEN [how |-> "uid", rows |-> ByUid(uid)]
    ELSE IF Truthy(claim_no) /\ ByClaimNumber(claim_no) # {}
    THEN [how |-> "claim", rows |-> ByClaimNumber(claim_no)]
    ELSE IF Truthy(p_name) /\ Truthy(uhid) /\ ByPatient(p_name, uhid) # {}
    THEN [how |-> "name", rows |-> ByPatient(p_name, uhid)]
    ELSE [how |-> "none", rows |-> {}]

\* a stale test that lets every message through
is_never_older(email_date, row) == FALSE

\* a stale test that turns away the later message instead of the earlier one
is_older_reversed(email_date, row) == email_date > row.email_date

\* the stale test
is_older(email_date, row) == email_date < row.email_date

merged_patient_name(row, p_name) ==
    LET curr_name == str_lower(Or(row.patient_name, <<>>))
    IN  IF Truthy(p_name) /\ p_name # row.patient_name
        THEN IF \/ Contains(curr_name, <<"h", "o", "s", "p", "i", "t", "a", "l", " ",
                                         "p", "a", "y", "m", "e", "n", "t">>)
                \/ Contains(curr_name, <<"d", "e", "t", "a", "i", "l", "s">>)
                \/ Contains(curr_name, <<"i", "n", "s", "u", "r", "e", "d">>)
             THEN p_name
             ELSE p_name
        ELSE row.patient_name

\* a claim-number rule that never clears the stored value
merged_claim_number_never_cleared(row, new_claim_no) ==
    IF Truthy(new_claim_no) THEN new_claim_no ELSE row.claim_number

merged_claim_number(row, new_claim_no) ==
    LET curr_claim_no == str_lower(Or(row.claim_number, <<>>))
    IN  IF Truthy(new_claim_no)
           /\ str_lower(new_claim_no) \notin {<<"n", "o", "n", "e">>, <<"n", "/", "a">>,
                                              <<"n", "u", "l", "l">>, <<>>}
        THEN new_claim_no
        ELSE IF curr_claim_no \in known_garbage_nos \/ Len(curr_claim_no) < 4
        THEN Null
        ELSE row.claim_number

\* an amount loop that writes whatever the draft holds
merged_amount_unguarded(row, data, field) == data[field]

\* an amount loop that leaves outstanding_amount out of its field list
merged_amount_without_outstanding(row, data, field) ==
    IF field # "outstanding_amount" /\ data[field] # 0 THEN data[field] ELSE row[field]

\* the amount loop: a value is written only if it is not None and not 0
merged_amount(row, data, field) ==
    IF data[field] # 0 THEN data[field] ELSE row[field]

merged_coverage(row, data) ==
    LET val == data.insurance_coverage_percent
    IN  IF val.t = "str" \/ (val.t = "num" /\ val.n # 0)
        THEN val
        ELSE row.insurance_coverage_percent

\* the update branch: the row after the field-by-field merge
merge_claim(row, uid, email_date, p_name, data) ==
    LET insurance == Or(data.insurance_company, row.insurance_company)
    IN  [f \in DOMAIN row |->
            IF f = "email_uid" THEN uid
            ELSE IF f = "email_date" THEN email_date
            ELSE IF f = "patient_name" THEN merged_patient_name(row, p_name)
            ELSE IF f = "uhid_mrn" THEN Or(data.uhid_mrn, row.uhid_mrn)
            ELSE IF f = "insurance_company" THEN insurance
            ELSE IF f = "claim_number" THEN merged_claim_number(row, data.claim_number)
            ELSE IF f = "tpa_name"
                 THEN IF Truthy(data.tpa_name) THEN data.tpa_name
                      ELSE IF ~Truthy(row.tpa_name) THEN insurance
                      ELSE row.tpa_name
            ELSE IF f = "claim_status" THEN OrStatus(status_of(data), row.claim_status)
            ELSE IF f \in {"claim_type", "claim_date", "settlement_date", "submitted_date",
                           "remarks", "tat_followup_date"}
                 THEN Or(data[f], row[f])
            ELSE IF f \in merge_amount_fields THEN merged_amount(row, data, f)
            ELSE IF f = "insurance_coverage_percent" THEN merged_coverage(row, data)
            ELSE row[f]]

\* Claim(...) of the create branch; claim_amount is not passed and takes the
\* column default 0.0
new_claim(id, uid, email_date, data) ==
    [id |-> id, email_uid |-> uid, email_date |-> email_date,
     patient_name |-> data.patient_name, uhid_mrn |-> data.uhid_mrn,
     insurance_company |-> data.insurance_company,
     tpa_name |-> Or(data.tpa_name, data.insurance_company),
     claim_number |-> data.claim_number,
     claim_status |-> status_of(data),
     claim_type |-> Or(data.claim_type, <<"G", "e", "n", "e", "r", "a", "l">>),
     claim_date |-> data.claim_date, settlement_date |-> data.settlement_date,
     submitted_date |-> data.submitted_date,
     approved_amount |-> data.approved_amount, settled_amount |-> data.settled_amount,
     rejected_amount |-> data.rejected_amount,
     outstanding_amount |-> data.outstanding_amount,
     total_bill_amount |-> data.total_bill_amount,
     claim_amount |-> 0,
     patient_payable_amount |-> data.patient_payable_amount,
     insurance_coverage_percent |->
         IF data.insurance_coverage_percent.t = "absent" THEN Num(0)
         ELSE data.insurance_coverage_percent,
     balance_amount |-> data.balance_amount,
     remarks |-> data.remarks, tat_followup_date |-> data.tat_followup_date]

\* a history entry that carries the label of the create branch as its status
create_history_labelled_by_status(row, uid, email_date) ==
    [claim_number |-> row.claim_number, email_uid |-> uid, email_date |-> email_date,
     total_settled_so_far |-> row.settled_amount,
     amount_received |-> row.settled_amount,
     status |-> "Initial Create", remarks |-> ""]

\* ClaimHistory(...) of the create branch
create_history(row, uid, email_date) ==
    [claim_number |-> row.claim_number, email_uid |-> uid, email_date |-> email_date,
     total_settled_so_far |-> row.settled_amount,
     amount_received |-> row.settled_amount,
     status |-> row.claim_status, remarks |-> "Initial Create"]

\* a create branch that accepts every draft
insufficient_never(data) == FALSE

\* the two early returns of the create branch
insufficient_identifiers(data) ==
    LET claim_no == data.claim_number
        p_name == data.patient_name
    IN  \/ ~Truthy(claim_no) /\ (~Truthy(p_name) \/ ~Truthy(data.uhid_mrn))
        \/ /\ ~(Truthy(claim_no) /\ status_of(data) = "Settled")
           /\ ~Truthy(p_name) /\ ~Truthy(data.uhid_mrn)

ProcessingLog(subject, status, error_message) ==
    [email_subject |-> subject, status |-> status, error_message |-> error_message]

\* a store without UNIQUE constraints
unique_unchecked(rows) == TRUE

\* UNIQUE(claim_number) and UNIQUE(email_uid) of db.Claim, NULLs apart
unique_ok(rows) ==
    \A i, j \in DOMAIN rows :
        i # j => /\ rows[i].email_uid # rows[j].email_uid
                 /\ (rows[i].claim_number # Null
                        => rows[i].claim_number # rows[j].claim_number)

---------------------------------------------------------------------------
(* Inputs of the ledger: the messages of the mailbox and what extraction may
   return for them *)

MaxUid == 3
MaxSteps == 3

Uids == 1..MaxUid

\* the Date header: messages 1 and 2 carry the same date, message 3 a later one
DateOf(uid) == (uid + 1) \div 2

CLM_A == <<"C", "L", "M", "1", "0", "0", "1">>
CLM_B == <<"C", "L", "M", "2", "0", "0", "2">>
NAME_A == <<"R", "a", "j", "e", "s", "h", " ", "K", "u", "m", "a", "r">>
NAME_B == <<"I", "n", "s", "u", "r", "e", "d", " ", "R", "a", "v", "i">>
UHID_A == <<"U", "H", "7", "7">>
UHID_B == <<"U", "H", "8", "8">>

DraftA ==
    [EmptyDraft EXCEPT !.claim_number = CLM_A, !.patient_name = NAME_A,
                       !.uhid_mrn = UHID_A, !.claim_status = "Approved",
                       !.insurance_company = <<"S", "t", "a", "r", " ", "H", "e", "a", "l", "t", "h">>,
                       !.total_bill_amount = Num(20), !.approved_amount = Num(15),
                       !.settled_amount = Num(5),
                       !.insurance_coverage_percent = Num(80),
                       !.claim_type = <<"C", "a", "s", "h", "l", "e", "s", "s">>,
                       !.claim_date = <<"2", "0", "2", "5", "-", "1", "2", "-", "0", "3">>]

DraftB ==
    [EmptyDraft EXCEPT !.claim_number = CLM_B, !.patient_name = NAME_A,
                       !.uhid_mrn = UHID_A, !.claim_status = "Pending"]

DraftC ==
    [EmptyDraft EXCEPT !.claim_number = CLM_B, !.patient_name = NAME_B,
                       !.uhid_mrn = UHID_B, !.claim_status = "Approved",
                       !.total_bill_amount = Num(10), !.approved_amount = Str(<<"1", ".", "0">>)]

\* a payment advice: claim number only, no patient, no amounts
DraftD ==
    [EmptyDraft EXCEPT !.claim_number = CLM_A, !.claim_status = "Settled",
                       !.patient_name = <<"U", "n", "k", "n", "o", "w", "n">>,
                       !.insurance_coverage_percent = Num(0),
                       !.settlement_date = <<"2", "0", "2", "5", "-", "1", "2", "-", "0", "9">>]

DraftE ==
    [EmptyDraft EXCEPT !.patient_name = NAME_B, !.uhid_mrn = UHID_B,
                       !.claim_status = StatusNone, !.total_bill_amount = Num(5)]

\* neither patient name nor claim number
DraftF == [EmptyDraft EXCEPT !.claim_status = "Queried", !.claim_number = <<"N", "o", "n", "e">>]

\* a patient name alone
DraftG == [EmptyDraft EXCEPT !.patient_name = NAME_B, !.claim_status = "Pending"]

\* a short, purely numeric claim number, which clean_claim_number lets through
CLM_SHORT == <<"1", "2">>

DraftH ==
    [EmptyDraft EXCEPT !.claim_number = CLM_SHORT, !.patient_name = NAME_B,
                       !.uhid_mrn = UHID_B, !.claim_status = "Queried"]

RawDrafts == {DraftA, DraftB, DraftC, DraftD, DraftE, DraftF, DraftG, DraftH}

\* what extraction may return for each message of the mailbox (the models'
\* answers vary from one run to the next)
DraftsOf(uid) ==
    CASE uid = 1 -> {DraftA, DraftE, DraftG}
      [] uid = 2 -> {DraftB, DraftC, DraftD, DraftH}
      [] uid = 3 -> {DraftC, DraftB, DraftF}
      [] OTHER -> {DraftA, DraftD, DraftE}

\* extract_claim_data ends in apply_financial_formulas: the draft each raw
\* result is reconciled to
Reconciled == [raw \in RawDrafts |-> apply_financial_formulas(raw)]

\* extracted_data["patient_name"] = " Hospital Payment / Bulk Claim"
with_placeholder(data) ==
    IF no_patient_name(data.patient_name)
    THEN [data EXCEPT !.patient_name = PLACEHOLDER_NAME]
    ELSE data

\* what the last processed message was and where it went
Event(kind, uid, how, id, raw) ==
    [kind |-> kind, uid |-> uid, how |-> how, id |-> id, raw |-> raw,
     again |-> ev.kind \notin {"none", "migrate"} /\ ev.uid = uid /\ ev.raw = raw]

---------------------------------------------------------------------------
(* process_single_email *)

\* the stale branch: Skipped log, nothing else
SkipOlder(i, how, uid, raw) ==
    /\ logs' = Append(logs, ProcessingLog(uid, "Skipped", "Newer data exists"))
    /\ ev' = Event("stale", uid, how, claims[i].id, raw)
    /\ UNCHANGED <<claims, history>>

\* the update branch.  "from db import ClaimHistory" in the create branch
\* makes ClaimHistory a local name of the whole function, so the history
\* lookup that follows the field updates raises UnboundLocalError.  The
\* handler then adds an Error log and commits the session, and that commit
\* writes the updated record with it; when the record breaks a UNIQUE
\* constraint the commit fails inside the handler and nothing is written.
UpdateClaim(i, how, uid, email_date, data, raw) ==
    LET merged == merge_claim(claims[i], uid, email_date, data.patient_name, data)
        rows == [claims EXCEPT ![i] = merged]
    IN  IF unique_ok(rows)
        THEN /\ claims' = rows
             /\ logs' = Append(logs, ProcessingLog(uid, "Error", "UnboundLocalError"))
             /\ ev' = Event("merged", uid, how, claims[i].id, raw)
             /\ UNCHANGED history
        ELSE /\ ev' = Event("error", uid, how, claims[i].id, raw)
             /\ UNCHANGED <<claims, history, logs>>

\* the create branch: the two early returns write nothing, not even a log.
\* No record holds the message's uid or the draft's claim number here, so
\* the insert cannot break a UNIQUE constraint.
CreateClaim(uid, email_date, data, raw) ==
    LET claim == new_claim(steps + 1, uid, email_date, data)
    IN  IF insufficient_identifiers(data)
        THEN /\ ev' = Event("insufficient", uid, "none", 0, raw)
             /\ UNCHANGED <<claims, history, logs>>
        ELSE /\ claims' = Append(claims, claim)
             /\ history' = Append(history, create_history(claim, uid, email_date))
             /\ logs' = Append(logs, ProcessingLog(uid, "Success", ""))
             /\ ev' = Event("created", uid, "none", claim.id, raw)

\* process_single_email(uid, msg_data, db) for a message whose extraction
\* returned the draft raw before reconciliation
process_single_email(uid, raw) ==
    LET email_date == DateOf(uid)
        extracted_data == Reconciled[raw]
        claim_no == extracted_data.claim_number
    IN  /\ steps' = steps + 1
        /\ IF no_patient_name(extracted_data.patient_name) /\ ~Truthy(claim_no)
           THEN /\ logs' = Append(logs, ProcessingLog(uid, "Skipped",
                                                      "No Patient Name (Validation Failed)"))
                /\ ev' = Event("noname", uid, "none", 0, raw)
                /\ UNCHANGED <<claims, history>>
           ELSE LET data == with_placeholder(extracted_data)
                    found == find_existing_claim(uid, claim_no, data.patient_name,
                                                 data.uhid_mrn)
                IN  IF found.how # "none"
                    THEN \E i \in found.rows :
                            IF is_older(email_date, claims[i])
                            THEN SkipOlder(i, found.how, uid, raw)
                            ELSE UpdateClaim(i, found.how, uid, email_date, data, raw)
                    ELSE CreateClaim(uid, email_date, data, raw)

\* a message whose headers cannot be decoded: the exception handler logs it
\* under the subject "Unknown" (0)
unreadable_email(uid) ==
    /\ steps' = steps + 1
    /\ logs' = Append(logs, ProcessingLog(0, "Error", "TypeError"))
    /\ ev' = Event("error", uid, "parse", 0, EmptyDraft)
    /\ UNCHANGED <<claims, history>>

\* check_and_migrate(), run by init_db() each time the program starts
migrated_row(row) ==
    LET settled == row.claim_status = "Settled"
        r1 == IF settled
              THEN [row EXCEPT !.balance_amount = 0, !.outstanding_amount = 0,
                               !.patient_payable_amount =
                                   IF row.total_bill_amount > row.settled_amount
                                   THEN row.total_bill_amount - row.settled_amount
                                   ELSE @]
              ELSE row
        r2 == IF ~Truthy(r1.tpa_name) THEN [r1 EXCEPT !.tpa_name = r1.insurance_company]
              ELSE r1
    IN  IF r2.claim_amount = 0 THEN [r2 EXCEPT !.claim_amount = r2.total_bill_amount]
        ELSE r2

is_junk_row(row) ==
    /\ Contains(row.patient_name, <<"H", "o", "s", "p", "i", "t", "a", "l", " ", "P", "a",
                                    "y", "m", "e", "n", "t", " ", "/", " ", "B", "u", "l",
                                    "k", " ", "C", "l", "a", "i", "m">>)
    /\ ~Truthy(row.claim_number)
    /\ row.settled_amount = 0
    /\ row.total_bill_amount = 0

check_and_migrate(rows) ==
    LET kept == SelectSeq(rows, LAMBDA row : ~is_junk_row(row))
    IN  [k \in DOMAIN kept |-> migrated_row(kept[k])]

---------------------------------------------------------------------------
(* The ledger under any extraction result for each message *)

Init ==
    /\ LedgerIdle
    /\ arg = EmptyDraft
    /\ res = NoDraft
    /\ pc = "idle"

Process ==
    /\ steps < MaxSteps
    /\ \E uid \in Uids :
          \/ \E raw \in DraftsOf(uid) : process_single_email(uid, raw)
          \/ unreadable_email(uid)
    /\ UNCHANGED harness

\* a restart of the program between two messages
Migrate ==
    /\ claims # <<>>
    /\ check_and_migrate(claims) # claims
    /\ claims' = check_and_migrate(claims)
    /\ ev' = [NoEvent EXCEPT !.kind = "migrate"]
    /\ UNCHANGED <<history, logs, steps, harness>>

Next == Process \/ Migrate

Spec == Init /\ [][Next]_vars

---------------------------------------------------------------------------
(* The ledger when every message is extracted the same way each time it is
   seen: fetch_and_process_emails lists the last 14 days afresh on every cycle,
   so a message is processed again and again *)

MaxReplay == 5

MailDraft(uid) ==
    CASE uid = 1 -> DraftA
      [] uid = 2 -> DraftB
      [] OTHER -> DraftC

Replay ==
    /\ steps < MaxReplay
    /\ \E uid \in Uids : process_single_email(uid, MailDraft(uid))
    /\ UNCHANGED harness

NextReplay == Replay

SpecReplay == Init /\ [][NextReplay]_vars

---------------------------------------------------------------------------
(* Properties of the ledger *)

RowById(rows, id) == rows[CHOOSE i \in DOMAIN rows : rows[i].id = id]

IdsWhere(rows, P(_)) == {rows[i].id : i \in {k \in DOMAIN rows : P(rows[k])}}

LastLog == logs[Len(logs)]

\* the draft a raw extraction result is reconciled to
DraftOf(raw) ==
    IF raw \in RawDrafts THEN Reconciled[raw] ELSE apply_financial_formulas(raw)

\* the draft the last processed message was reconciled to
LastDraft == DraftOf(ev.raw)

\* a message was processed in this step
Processed == steps' = steps + 1

\* C4: in a step that processes a message, every stored amount of every
\* existing record changes only if the draft's value for that amount is
\* present and non-zero, a stored non-zero amount never becomes zero, and
\* claim_amount is never touched.
C4_MergeWritesOnlyNonZeroAmounts ==
    [][Processed =>
         LET draft == DraftOf(ev'.raw)
             cover == draft.insurance_coverage_percent
         IN  \A i \in DOMAIN claims :
                LET old == claims[i]
                    new == claims'[i]
                IN  /\ new.id = old.id
                    /\ \A f \in merge_amount_fields :
                          /\ new[f] # old[f] => draft[f] # 0 /\ new[f] = draft[f]
                          /\ old[f] # 0 => new[f] # 0
                    /\ new.claim_amount = old.claim_amount
                    /\ new.insurance_coverage_percent # old.insurance_coverage_percent
                          => /\ cover.t \in {"num", "str"}
                             /\ cover # Num(0)
                             /\ new.insurance_coverage_percent = cover]_vars

\* a merge whose draft carries zero for amounts the record holds: the
\* payment advice merged into the record of claim CLM1001
C4_Witness ==
    /\ ev.kind = "merged"
    /\ ev.raw = DraftD
    /\ LastDraft.settled_amount = 0
    /\ LastDraft.total_bill_amount = 0
    /\ LastDraft.insurance_coverage_percent = Num(0)
    /\ RowById(claims, ev.id).settled_amount = 5
    /\ RowById(claims, ev.id).total_bill_amount = 20
    /\ RowById(claims, ev.id).insurance_coverage_percent = Num(80)
    /\ RowById(claims, ev.id).claim_status = "Settled"

\* C5: when the message resolves to an existing record whose stored message
\* date is later than the message's own, the step changes no record, adds no
\* history entry and appends one log entry with status Skipped.
C5_StaleMessageOnlyLogsSkipped ==
    [][(/\ Processed
        /\ ev'.how \in {"uid", "claim", "name"}
        /\ DateOf(ev'.uid) < RowById(claims, ev'.id).email_date)
       => /\ claims' = claims
          /\ history' = history
          /\ Len(logs') = Len(logs) + 1
          /\ SubSeq(logs', 1, Len(logs)) = logs
          /\ logs'[Len(logs')].status = "Skipped"]_vars

\* an older message has just met a record written by a later one
C5_Witness ==
    /\ ev.kind = "stale"
    /\ ev.how = "claim"
    /\ DateOf(ev.uid) < RowById(claims, ev.id).email_date
    /\ RowById(claims, ev.id).email_uid # ev.uid
    /\ LastLog.status = "Skipped"

\* C6: the history never holds two entries for the same (claim_number,
\* message identifier) pair, whatever sequence of messages is processed.
C6_OneHistoryEntryPerPair ==
    \A i, j \in DOMAIN history :
        (/\ history[i].claim_number = history[j].claim_number
         /\ history[i].email_uid = history[j].email_uid) => i = j

\* the number of history entries of a (claim_number, message identifier) pair
HistoryCount(claim_number, uid) ==
    Cardinality({k \in DOMAIN history : /\ history[k].claim_number = claim_number
                                        /\ history[k].email_uid = uid})

\* C7: after the same message, with the same draft, has been processed twice
\* in succession and has been saved, the history holds exactly one entry for
\* the draft's claim_number and the message.
C7_RepeatLeavesOneHistoryEntry ==
    (ev.again /\ ev.kind \in {"created", "merged"})
        => HistoryCount(LastDraft.claim_number, ev.uid) = 1

\* C8: every processed message has appended exactly one ProcessingLog entry.
C8_OneLogPerMessage == Len(logs) = steps

\* C9: the record a message resolves to is one whose email_uid is the
\* message's uid if there is any; otherwise one with the draft's non-null
\* claim_number if there is any; otherwise one with the draft's patient name
\* and hospital id, both non-null; and no record is selected when none of the
\* three lookups finds one.
C9_ResolverPriority ==
    [][(Processed /\ ev'.kind \notin {"noname"} /\ ev'.how # "parse") =>
         LET uid == ev'.uid
             draft == with_placeholder(DraftOf(ev'.raw))
             SameUid(r) == r.email_uid = uid
             SameClaim(r) == draft.claim_number # Null /\ r.claim_number = draft.claim_number
             SamePatient(r) == /\ draft.patient_name # Null /\ draft.uhid_mrn # Null
                               /\ r.patient_name = draft.patient_name
                               /\ r.uhid_mrn = draft.uhid_mrn
             byUid == IdsWhere(claims, SameUid)
             byClaim == IdsWhere(claims, SameClaim)
             byPatient == IdsWhere(claims, SamePatient)
             selected == IF ev'.kind \in {"created", "insufficient"} THEN 0 ELSE ev'.id
         IN  /\ IF byUid # {} THEN selected \in byUid
                ELSE IF byClaim # {} THEN selected \in byClaim
                ELSE IF byPatient # {} THEN selected \in byPatient
                ELSE selected = 0
             /\ ev'.kind = "merged" =>
                   /\ RowById(claims', selected).email_uid = uid
                   /\ \A i \in DOMAIN claims :
                         claims[i].id # selected => claims'[i] = claims[i]]_vars

\* a message that matches one record by claim number and another by patient
\* name and hospital id has been merged into the former
C9_Witness ==
    /\ ev.kind = "merged"
    /\ ev.how = "claim"
    /\ \E i \in DOMAIN claims :
          /\ claims[i].id # ev.id
          /\ claims[i].patient_name = LastDraft.patient_name
          /\ claims[i].uhid_mrn = LastDraft.uhid_mrn
          /\ claims[i].claim_number # LastDraft.claim_number
          /\ claims[i].email_uid # ev.uid
    /\ RowById(claims, ev.id).email_uid = ev.uid
    /\ RowById(claims, ev.id).claim_number = LastDraft.claim_number

---------------------------------------------------------------------------
(* Reconciliation: signs, the rejected amount and the outstanding amount
   (C11, C12, C13) *)

\* C11: every one of the eight financial fields of the reconciled draft is a
\* number greater than or equal to 0, whatever the extracted values were
\* (null, a string, or a number of either sign).
C11_FinancialFieldsNonNegative ==
    pc = "ret" => \A f \in financial_fields : res[f] >= 0

\* C12: for a draft whose status is not Pending, the reconciled
\* rejected_amount is max(0, total_bill_amount - approved_amount) when the
\* extracted rejected_amount is zero or more than 1 unit away from that
\* value, and is the extracted rejected_amount otherwise.
C12_RejectedRecomputedOutsideTolerance ==
    (pc = "ret" /\ arg.claim_status \notin {"Pending", StatusAbsent}) =>
        LET extracted == coerce_amount(arg.rejected_amount)
            calculated == Max(0, GrossBill(arg) - coerce_amount(arg.approved_amount))
        IN  res.rejected_amount =
                IF extracted = 0 \/ Abs(extracted - calculated) > Unit
                THEN calculated
                ELSE extracted

\* an extracted rejected amount half a unit away from the calculated one is
\* kept
C12_Witness ==
    /\ pc = "ret"
    /\ arg.claim_status = "Approved"
    /\ arg.total_bill_amount = Num(15)
    /\ arg.approved_amount = Num(5)
    /\ arg.rejected_amount = Num(5)
    /\ res.rejected_amount = 5
    /\ res.total_bill_amount - res.approved_amount = 10

\* C13: the reconciled draft has outstanding_amount equal to balance_amount,
\* for every draft and every status.
C13_OutstandingMirrorsBalance ==
    pc = "ret" => res.outstanding_amount = res.balance_amount

\* an extracted outstanding amount of 2.5 replaced by a different balance
C13_Witness ==
    /\ pc = "ret"
    /\ arg.outstanding_amount = Num(25)
    /\ arg.claim_status = "Queried"
    /\ res.balance_amount = 5
    /\ res.outstanding_amount = 5

---------------------------------------------------------------------------
(* The merge, field by field (C14, C15, C16) *)

\* the stored name looks like known noise
LooksLikeNoise(name) ==
    LET curr_name == str_lower(Or(name, <<>>))
    IN  \/ Contains(curr_name, <<"h", "o", "s", "p", "i", "t", "a", "l", " ", "p", "a", "y", "m", "e", "n", "t">>)
        \/ Contains(curr_name, <<"d", "e", "t", "a", "i", "l", "s">>)
        \/ Contains(curr_name, <<"i", "n", "s", "u", "r", "e", "d">>)

\* C14: in a merge the stored patient name becomes the draft's patient name
\* when the draft has one; when the draft has none, the stored name changes
\* only if it looks like known noise.
C14_NameKeptWhenDraftHasNone ==
    [][(Processed /\ ev'.kind = "merged") =>
         LET draft == DraftOf(ev'.raw)
             old == RowById(claims, ev'.id)
             new == RowById(claims', ev'.id)
         IN  IF draft.patient_name # Null
             THEN new.patient_name = draft.patient_name
             ELSE new.patient_name # old.patient_name
                     => LooksLikeNoise(old.patient_name)]_vars

\* the stored claim number is garbage: in the denylist of clean_claim_number,
\* or shorter than 4 characters
IsGarbageClaimNumber(claim_number) ==
    /\ claim_number # Null
    /\ \/ lower(strip(claim_number)) \in junk_values
       \/ Len(claim_number) < 4

NeverNullFields == {"claim_status", "claim_type", "claim_date", "settlement_date"}

IsNullValue(f, v) == IF f = "claim_status" THEN v = StatusNone ELSE v = Null

\* the draft's value of one of these fields, as the merge reads it
DraftValue(draft, f) == IF f = "claim_status" THEN status_of(draft) ELSE draft[f]

\* C16: in every step, a record's claim_status, claim_type, claim_date or
\* settlement_date that is non-null stays non-null, and it changes only to
\* the non-null value the draft of the processed message carries.
C16_KnownValuesNeverRegress ==
    [][\A i \in DOMAIN claims : \A j \in DOMAIN claims' :
          claims'[j].id = claims[i].id =>
             \A f \in NeverNullFields :
                /\ ~IsNullValue(f, claims[i][f]) => ~IsNullValue(f, claims'[j][f])
                /\ claims'[j][f] # claims[i][f] =>
                      /\ Processed
                      /\ ~IsNullValue(f, DraftValue(DraftOf(ev'.raw), f))
                      /\ claims'[j][f] = DraftValue(DraftOf(ev'.raw), f)]_vars

\* a draft with no status, type or dates has been merged into a record that
\* keeps its own
C16_Witness ==
    /\ ev.kind = "merged"
    /\ \A f \in NeverNullFields \ {"settlement_date"} :
          /\ IsNullValue(f, DraftValue(LastDraft, f))
          /\ ~IsNullValue(f, RowById(claims, ev.id)[f])
    /\ RowById(claims, ev.id).claim_date = DraftA.claim_date
    /\ RowById(claims, ev.id).claim_status = "Approved"

---------------------------------------------------------------------------
(* Messages that meet no record: creation and discarding (C17, C18) *)

\* no record holds the message identifier, the draft's claim number, or the
\* draft's patient name together with its hospital id
NoRecordMatches(uid, draft) ==
    \A i \in DOMAIN claims :
        /\ claims[i].email_uid # uid
        /\ ~(Truthy(draft.claim_number) /\ claims[i].claim_number = draft.claim_number)
        /\ ~(/\ Truthy(draft.patient_name) /\ Truthy(draft.uhid_mrn)
             /\ claims[i].patient_name = draft.patient_name
             /\ claims[i].uhid_mrn = draft.uhid_mrn)

\* the draft names a claim number, or a usable patient name and a hospital id
SufficientIdentity(draft) ==
    \/ Truthy(draft.claim_number)
    \/ ~no_patient_name(draft.patient_name) /\ Truthy(draft.uhid_mrn)

\* the step appended exactly one record and one history entry for it
CreatedOne ==
    /\ Len(claims') = Len(claims) + 1
    /\ SubSeq(claims', 1, Len(claims)) = claims
    /\ Len(history') = Len(history) + 1
    /\ SubSeq(history', 1, Len(history)) = history
    /\ claims'[Len(claims')].email_uid = ev'.uid
    /\ history'[Len(history')].email_uid = ev'.uid
    /\ history'[Len(history')].claim_number = claims'[Len(claims')].claim_number

\* a message with a readable header was processed, no record matched its
\* draft and the draft has sufficient identity
CreateCase ==
    /\ Processed
    /\ ev'.how # "parse"
    /\ NoRecordMatches(ev'.uid, with_placeholder(DraftOf(ev'.raw)))
    /\ SufficientIdentity(DraftOf(ev'.raw))

\* C17 as stated: when no record matches and the draft has sufficient
\* identity, the step creates exactly one record and one history entry for it
\* whose amount_received is the draft's settled_amount and whose status is
\* "Initial Create".
C17_HistoryStatusInitialCreate ==
    [][CreateCase =>
         /\ CreatedOne
         /\ history'[Len(history')].amount_received = DraftOf(ev'.raw).settled_amount
         /\ history'[Len(history')].status = "Initial Create"]_vars

\* C17 as the code has it: when no record matches and the draft has sufficient
\* identity, the step creates exactly one record and one history entry for it
\* whose amount_received is the draft's settled_amount, whose status is the
\* claim_status of the new record and whose remarks are "Initial Create".
C17_CreateWritesRecordAndHistory ==
    [][CreateCase =>
         /\ CreatedOne
         /\ history'[Len(history')].amount_received = DraftOf(ev'.raw).settled_amount
         /\ history'[Len(history')].status = claims'[Len(claims')].claim_status
         /\ history'[Len(history')].status = status_of(DraftOf(ev'.raw))
         /\ history'[Len(history')].remarks = "Initial Create"]_vars

\* a second record has just been created beside an unrelated one, with a
\* non-zero settled amount in its history entry
C17_Witness ==
    /\ ev.kind = "created"
    /\ Len(claims) = 2
    /\ Len(history) = 2
    /\ claims[2].id = ev.id
    /\ claims[2].claim_number = CLM_A
    /\ claims[1].claim_number # CLM_A
    /\ history[2].claim_number = CLM_A
    /\ history[2].amount_received = LastDraft.settled_amount
    /\ history[2].amount_received > 0
    /\ history[2].status = "Approved"
    /\ history[2].remarks = "Initial Create"

\* C18: when no record matches and the draft has no claim_number and lacks a
\* patient name or a hospital id, the step leaves every record and every
\* history entry as it was and adds none.
C18_InsufficientDraftDiscarded ==
    [][(/\ Processed
        /\ ev'.how # "parse"
        /\ NoRecordMatches(ev'.uid, DraftOf(ev'.raw))
        /\ ~Truthy(DraftOf(ev'.raw).claim_number)
        /\ \/ ~Truthy(DraftOf(ev'.raw).patient_name)
           \/ ~Truthy(DraftOf(ev'.raw).uhid_mrn))
       => /\ claims' = claims
          /\ history' = history]_vars

\* a draft with a patient name but neither claim number nor hospital id has
\* just been discarded by the create branch of a ledger that holds records
C18_Witness ==
    /\ ev.kind = "insufficient"
    /\ ~Truthy(LastDraft.claim_number)
    /\ Truthy(LastDraft.patient_name)
    /\ ~Truthy(LastDraft.uhid_mrn)
    /\ Len(claims) >= 1
    /\ Len(history) >= 1
    /\ \A i \in DOMAIN claims : claims[i].email_uid # ev.uid

---------------------------------------------------------------------------
(* The message a record was last written from (C19) *)

\* every record carries the date of the message it names
DateIsOfNamedMessage ==
    \A i \in DOMAIN claims :
        /\ claims[i].email_uid \in Uids
        /\ claims[i].email_date = DateOf(claims[i].email_uid)

\* C19: with messages processed one after another, no step lowers the
\* email_date of a record, a step that changes a record at all is the
\* processing of a message that is not older than the record and leaves that
\* message's identifier and date on it, and every record names a message whose
\* date is the record's email_date; so the identifier is that of a message with
\* the latest date among those written into the record.
C19_RecordFollowsLatestMessage ==
    [][/\ \A i \in DOMAIN claims : \A j \in DOMAIN claims' :
             claims'[j].id = claims[i].id =>
                /\ claims'[j].email_date >= claims[i].email_date
                /\ (Processed /\ claims'[j] # claims[i]) =>
                      /\ claims'[j].email_uid = ev'.uid
                      /\ claims'[j].email_date = DateOf(ev'.uid)
                /\ ~Processed =>
                      /\ claims'[j].email_uid = claims[i].email_uid
                      /\ claims'[j].email_date = claims[i].email_date
       /\ \A j \in DOMAIN claims' :
             (\A i \in DOMAIN claims : claims[i].id # claims'[j].id) =>
                /\ Processed
                /\ claims'[j].email_uid = ev'.uid
                /\ claims'[j].email_date = DateOf(ev'.uid)
       /\ DateIsOfNamedMessage']_vars

\* a record created from message 1 was rewritten from the later message 3,
\* and an earlier message that met it afterwards has left it alone
C19_Witness ==
    /\ ev.kind = "stale"
    /\ Len(claims) = 1
    /\ Len(history) = 1
    /\ history[1].email_uid = 1
    /\ history[1].email_date = DateOf(1)
    /\ claims[1].email_uid = 3
    /\ claims[1].email_date = DateOf(3)
    /\ DateOf(ev.uid) < DateOf(3)
    /\ DateOf(1) < DateOf(3)

---------------------------------------------------------------------------
(* The worker pool: fetch_and_process_emails hands the fetched messages to a
   ThreadPoolExecutor, and each worker runs process_single_email on a session
   of its own.  Two workers are followed, on a ledger that already holds the
   record message 1 created from DraftA.  Here arg[w] is the (uid, draft) a
   worker was handed, res[w] its session and pc[w] the place it has reached;
   every step is one statement sent to the store (READ COMMITTED: it sees what
   has been committed so far), or the commit. *)

Workers == {"w1", "w2"}

NoRow == [id |-> 0]

\* SessionLocal(): nothing loaded, nothing pending
NewSession == [obj |-> NoRow, row |-> NoRow, how |-> "none", kind |-> "none"]

\* the record and the history entry message 1 leaves on an empty ledger
SeedRow == new_claim(1, 1, DateOf(1), with_placeholder(Reconciled[DraftA]))
SeedHistory == create_history(SeedRow, 1, DateOf(1))

\* extracted_data of a worker, with the placeholder name of lines 165-168
DataOf(w) == with_placeholder(Reconciled[arg[w].raw])

InitPool ==
    /\ claims = <<SeedRow>>
    /\ history = <<SeedHistory>>
    /\ logs = <<ProcessingLog(1, "Success", "")>>
    /\ steps = 1
    /\ ev = NoEvent
    /\ \E u1, u2 \in Uids :
          /\ u1 < u2
          /\ \E r1 \in DraftsOf(u1), r2 \in DraftsOf(u2) :
                arg = [w \in Workers |->
                          IF w = "w1" THEN [uid |-> u1, raw |-> r1]
                          ELSE [uid |-> u2, raw |-> r2]]
    /\ res = [w \in Workers |-> NewSession]
    /\ pc = [w \in Workers |-> "start"]

\* a pool in which an exception of one worker ends the batch
Finish_aborting(w, kind, how, id) ==
    /\ pc' = IF kind \in {"merged", "error"} THEN [v \in Workers |-> "aborted"]
             ELSE [pc EXCEPT ![w] = "done"]
    /\ res' = [res EXCEPT ![w].kind = kind, ![w].how = how]
    /\ steps' = steps + 1
    /\ ev' = Event(kind, arg[w].uid, how, id, arg[w].raw)

\* the worker has returned from process_single_email
Finish(w, kind, how, id) ==
    /\ pc' = [pc EXCEPT ![w] = "done"]
    /\ res' = [res EXCEPT ![w].kind = kind, ![w].how = how]
    /\ steps' = steps + 1
    /\ ev' = Event(kind, arg[w].uid, how, id, arg[w].raw)

\* the worker goes on to the statement at place next having loaded nothing
GoOn(w, next) ==
    /\ pc' = [pc EXCEPT ![w] = next]
    /\ UNCHANGED <<res, claims, history, logs, steps, ev>>

\* a lookup has returned the record at index i: the session keeps it as loaded
Loaded(w, i, how) ==
    /\ pc' = [pc EXCEPT ![w] = "check"]
    /\ res' = [res EXCEPT ![w].obj = claims[i], ![w].how = how]
    /\ UNCHANGED <<claims, history, logs, steps, ev>>

\* the validation of the patient name
Validate(w) ==
    /\ pc[w] = "start"
    /\ LET extracted_data == Reconciled[arg[w].raw]
       IN  IF /\ no_patient_name(extracted_data.patient_name)
              /\ ~Truthy(extracted_data.claim_number)
           THEN /\ logs' = Append(logs, ProcessingLog(arg[w].uid, "Skipped",
                                                      "No Patient Name (Validation Failed)"))
                /\ Finish(w, "noname", "none", 0)
                /\ UNCHANGED <<claims, history>>
           ELSE GoOn(w, "by_uid")
    /\ UNCHANGED arg

\* db.query(Claim).filter(Claim.email_uid == str(uid)).first()
QueryByUid(w) ==
    /\ pc[w] = "by_uid"
    /\ IF ByUid(arg[w].uid) # {}
       THEN \E i \in ByUid(arg[w].uid) : Loaded(w, i, "uid")
       ELSE GoOn(w, "by_claim")
    /\ UNCHANGED arg

\* db.query(Claim).filter(Claim.claim_number == claim_no).first()
QueryByClaimNumber(w) ==
    /\ pc[w] = "by_claim"
    /\ LET claim_no == DataOf(w).claim_number
       IN  IF Truthy(claim_no) /\ ByClaimNumber(claim_no) # {}
           THEN \E i \in ByClaimNumber(claim_no) : Loaded(w, i, "claim")
           ELSE GoOn(w, "by_name")
    /\ UNCHANGED arg

\* db.query(Claim).filter(Claim.patient_name == p_name, Claim.uhid_mrn == uhid).first()
QueryByPatient(w) ==
    /\ pc[w] = "by_name"
    /\ LET p_name == DataOf(w).patient_name
           uhid == DataOf(w).uhid_mrn
       IN  IF Truthy(p_name) /\ Truthy(uhid) /\ ByPatient(p_name, uhid) # {}
           THEN \E i \in ByPatient(p_name, uhid) : Loaded(w, i, "name")
           ELSE GoOn(w, "create")
    /\ UNCHANGED arg

\* the stale test on the loaded record, then either the Skipped log or the
\* field writes on the loaded record (nothing is sent to the store by them)
CheckAndMerge(w) ==
    /\ pc[w] = "check"
    /\ LET uid == arg[w].uid
           email_date == DateOf(uid)
           existing_claim == res[w].obj
       IN  IF is_older(email_date, existing_claim)
           THEN /\ logs' = Append(logs, ProcessingLog(uid, "Skipped", "Newer data exists"))
                /\ Finish(w, "stale", res[w].how, existing_claim.id)
                /\ UNCHANGED <<claims, history>>
           ELSE /\ pc' = [pc EXCEPT ![w] = "commit"]
                /\ res' = [res EXCEPT ![w].row =
                              merge_claim(existing_claim, uid, email_date,
                                          DataOf(w).patient_name, DataOf(w))]
                /\ UNCHANGED <<claims, history, logs, steps, ev>>
    /\ UNCHANGED arg

\* the UPDATE a session flushes: the columns whose value differs from the
\* loaded one, written onto the record as the store holds it now
flushed_row(stored, loaded, updated) ==
    [f \in DOMAIN stored |-> IF updated[f] # loaded[f] THEN updated[f] ELSE stored[f]]

\* the history lookup raises UnboundLocalError; the handler adds the Error log
\* and commits, which flushes the pending UPDATE
CommitUpdate(w) ==
    /\ pc[w] = "commit"
    /\ LET i == CHOOSE k \in DOMAIN claims : claims[k].id = res[w].obj.id
           rows == [claims EXCEPT ![i] = flushed_row(claims[i], res[w].obj, res[w].row)]
       IN  IF unique_ok(rows)
           THEN /\ claims' = rows
                /\ logs' = Append(logs, ProcessingLog(arg[w].uid, "Error",
                                                      "UnboundLocalError"))
                /\ Finish(w, "merged", res[w].how, res[w].obj.id)
                /\ UNCHANGED history
           ELSE /\ Finish(w, "error", res[w].how, res[w].obj.id)
                /\ UNCHANGED <<claims, history, logs>>
    /\ UNCHANGED arg

\* the create branch: the INSERT of db.flush() fails when another worker has
\* committed the same claim number or message identifier meanwhile, and then
\* the handler's commit fails too
InsertClaim(w) ==
    /\ pc[w] = "create"
    /\ LET uid == arg[w].uid
           claim == new_claim(steps + 1, uid, DateOf(uid), DataOf(w))
       IN  IF insufficient_identifiers(DataOf(w))
           THEN /\ Finish(w, "insufficient", "none", 0)
                /\ UNCHANGED <<claims, history, logs>>
           ELSE IF unique_ok(Append(claims, claim))
           THEN /\ claims' = Append(claims, claim)
                /\ history' = Append(history, create_history(claim, uid, DateOf(uid)))
                /\ logs' = Append(logs, ProcessingLog(uid, "Success", ""))
                /\ Finish(w, "created", "none", claim.id)
           ELSE /\ Finish(w, "error", "none", 0)
                /\ UNCHANGED <<claims, history, logs>>
    /\ UNCHANGED arg

\* one step of a worker
process_single_email_wrapper(w) ==
    \/ Validate(w)
    \/ QueryByUid(w)
    \/ QueryByClaimNumber(w)
    \/ QueryByPatient(w)
    \/ CheckAndMerge(w)
    \/ CommitUpdate(w)
    \/ InsertClaim(w)

NextPool == \E w \in Workers : process_single_email_wrapper(w)

SpecPool == InitPool /\ [][NextPool]_vars

\* the executor runs the tasks it was given: while a worker has a statement
\* left, some worker executes one (and no worker has more than seven)
SpecPoolFair == SpecPool /\ WF_vars(NextPool)

---------------------------------------------------------------------------
(* Two workers on one record (C20) *)

\* one of the three lookups finds the record for the message and its draft
Matches(row, uid, data) ==
    \/ row.email_uid = uid
    \/ Truthy(data.claim_number) /\ row.claim_number = data.claim_number
    \/ /\ Truthy(data.patient_name) /\ Truthy(data.uhid_mrn)
       /\ row.patient_name = data.patient_name
       /\ row.uhid_mrn = data.uhid_mrn

\* the record after a message has been merged into it
MergedInto(row, w) ==
    merge_claim(row, arg[w].uid, DateOf(arg[w].uid), DataOf(w).patient_name, DataOf(w))

\* the record left when worker w1 runs to its end before worker w2 starts,
\* both messages being merged
OneAfterTheOther == MergedInto(MergedInto(SeedRow, "w1"), "w2")

\* both workers have returned, each had loaded the record of message 1, and
\* the message of w1 carries an earlier date than the message of w2
BothOnSeedRow ==
    /\ \A w \in Workers : pc[w] = "done" /\ res[w].obj.id = SeedRow.id
    /\ DateOf(arg["w1"].uid) < DateOf(arg["w2"].uid)

\* the stored record is the one every order of the workers' steps leaves: the
\* one left when the earlier message is processed to its end first, in the
\* cases where that order sends both messages to the same record too
C20_SameRecordForEveryInterleaving ==
    (/\ BothOnSeedRow
     /\ Matches(SeedRow, arg["w1"].uid, DataOf("w1"))
     /\ Matches(MergedInto(SeedRow, "w1"), arg["w2"].uid, DataOf("w2")))
    => claims[1] = OneAfterTheOther

\* once the later message has been written, the record names it and carries
\* its date
C20_OlderNeverOverwritesNewer ==
    (BothOnSeedRow /\ res["w2"].kind = "merged")
    => /\ claims[1].email_uid = arg["w2"].uid
       /\ claims[1].email_date = DateOf(arg["w2"].uid)

\* C20: when two workers process two messages of different dates that both
\* resolve to the same existing record, the record stored at the end is the
\* same for every interleaving of their steps, and the message with the
\* earlier date never overwrites what the later one wrote.
C20_ConcurrentMergeConsistent ==
    /\ C20_SameRecordForEveryInterleaving
    /\ C20_OlderNeverOverwritesNewer

---------------------------------------------------------------------------
(* Claim numbers of the ledger (C21) *)

\* C21: in every reachable state of the ledger no two records carry the same
\* non-null claim_number.
C21_ClaimNumbersUnique ==
    \A i, j \in DOMAIN claims :
        (i # j /\ claims[i].claim_number # Null)
            => claims[i].claim_number # claims[j].claim_number

\* a message that resolved to one record brought the claim number of another
\* record, and the store refused the write
C21_Witness ==
    /\ ev.kind = "error"
    /\ Len(claims) = 2
    /\ LastDraft.claim_number # Null
    /\ RowById(claims, ev.id).claim_number # LastDraft.claim_number
    /\ \E i \in DOMAIN claims :
          /\ claims[i].id # ev.id
          /\ claims[i].claim_number = LastDraft.claim_number

---------------------------------------------------------------------------
(* The strategy chain of extract_claim_data (C22, C23) *)

\* the text is empty or consists of whitespace
IsBlank(text) == \A i \in 1..Len(text) : text[i] \in Whitespace

\* the result is a reconciled draft: every financial field a number, a
\* claim_status present, outstanding equal to balance
IsReconciledDraft(data) ==
    /\ data # NoDraft
    /\ DOMAIN data = DOMAIN EmptyDraft
    /\ \A f \in financial_fields : data[f] \in Int
    /\ data.outstanding_amount = data.balance_amount

\* a model backend answered with a draft that passes validate_extraction and
\* on which reconciliation does not raise
Yields(outcome) ==
    /\ outcome.k = "json"
    /\ outcome.data # EmptyDict
    /\ validate_extraction(outcome.data)
    /\ \A f \in financial_fields : outcome.data[f] # Arr

\* C22: extract_claim_data returns None exactly for an empty or whitespace
\* text; for every other text it returns a draft, whatever the two model
\* backends did.
C22_DraftForEveryNonBlankText ==
    pc = "ret" =>
        /\ (res.by = "none") <=> IsBlank(arg.text)
        /\ (res.data = NoDraft) <=> IsBlank(arg.text)
        /\ ~IsBlank(arg.text) => IsReconciledDraft(res.data)

\* both backends were tried and failed, one by an exception and one by
\* malformed JSON, and the regex fallback produced the draft
C22_Witness ==
    /\ pc = "ret"
    /\ ~IsBlank(arg.text)
    /\ arg.primary.k = "raises"
    /\ arg.local.k = "badjson"
    /\ res.by = "regex"
    /\ IsReconciledDraft(res.data)

---------------------------------------------------------------------------
(* Status of the regex fallback (C24) *)

\* the tiers in their order of priority: the keywords and the status they give
StatusTiers ==
    <<[words |-> settled_words, status |-> "Settled"],
      [words |-> approved_words, status |-> "Approved"],
      [words |-> rejected_words, status |-> "Rejected"],
      [words |-> queried_words, status |-> "Queried"],
      [words |-> {<<"a", "p", "p", "r", "o", "v", "e", "d">>}, status |-> "Approved"],
      [words |-> {<<"r", "e", "j", "e", "c", "t", "e", "d">>}, status |-> "Rejected"]>>

\* the tiers of which the lower-cased text contains a keyword
MatchingTiers(text) ==
    {k \in DOMAIN StatusTiers : \E word \in StatusTiers[k].words : Contains(lower(text), word)}

\* C24: a draft produced by the regex fallback has the status of the first
\* tier its text matches, in the order Settled, Approval, Rejection, Query
\* phrases, bare "approved", bare "rejected", and Pending when it matches none;
\* the status is one of Settled, Approved, Rejected, Queried, Pending.
C24_RegexStatusByFirstTier ==
    (pc = "ret" /\ res.by = "regex") =>
        LET hits == MatchingTiers(arg.text)
        IN  /\ hits = {} => res.data.claim_status = "Pending"
            /\ \A k \in hits :
                  (\A j \in hits : k <= j) => res.data.claim_status = StatusTiers[k].status
            /\ res.data.claim_status \in {"Settled", "Approved", "Rejected", "Queried", "Pending"}

\* a text with an approval phrase and a settled keyword went through the
\* regex fallback and came out Settled
C24_Witness ==
    /\ pc = "ret"
    /\ res.by = "regex"
    /\ {1, 2} \subseteq MatchingTiers(arg.text)
    /\ res.data.claim_status = "Settled"

---------------------------------------------------------------------------
(* Exceptions stay within their message (C25) *)

\* the worker left process_single_email through its exception handler
Raised(w) == res[w].kind \in {"merged", "error"}

\* every message of the batch has come to an outcome
AllDone == \A w \in Workers : pc[w] = "done" /\ res[w].kind # "none"

\* C25: every message handed to the pool is processed to an outcome, in every
\* run of the pool and so in those where a worker has left through the
\* exception handler: no worker is stopped by what another one did.
C25_EveryMessageReachesOutcome == <>[]AllDone

\* worker w1 left through the exception handler (its Error log is the second
\* log entry) and worker w2 created its record afterwards
C25_Witness ==
    /\ AllDone
    /\ Raised("w1")
    /\ res["w1"].kind = "merged"
    /\ res["w2"].kind = "created"
    /\ ev.uid = arg["w2"].uid
    /\ Len(logs) = 3
    /\ logs[2].status = "Error" /\ logs[2].email_subject = arg["w1"].uid
    /\ logs[3].status = "Success" /\ logs[3].email_subject = arg["w2"].uid
    /\ Len(claims) = 2

---------------------------------------------------------------------------
(* clean_claim_number on its own (C26) *)

MaxClaimNoLen == 4

ClaimNoChars == {"1", "2", "A", "b", " "}

RECURSIVE StringsUpTo(_)
StringsUpTo(n) ==
    IF n = 0 THEN {<<>>}
    ELSE LET shorter == StringsUpTo(n - 1)
         IN  shorter \cup {Append(t, c) : t \in shorter, c \in ClaimNoChars}

\* the values the cleaner is called with: None, every string of ClaimNoChars
\* up to MaxClaimNoLen characters, the denylist and the named examples
ClaimNoInputs ==
    {Null} \cup StringsUpTo(MaxClaimNoLen) \cup junk_values
    \cup {<<"A", "B", "C", "1", "2", "3">>, <<"G", "r", "o", "s", "s">>, <<"G", "R", "O", "S", "S">>, <<"e", "r", "e", "n", "c", "e">>, <<"R", "e", "f", " ", "N", "o">>, <<"C", "L", "M", "1">>, <<"X", "7">>, <<"1", "2", "3", "4">>, <<"1", "2", "3", "4", "5">>}

InitClean ==
    /\ arg \in ClaimNoInputs
    /\ res = Null
    /\ pc = "call"
    /\ LedgerIdle

\* the call clean_claim_number(claim_no)
CleanClaimNumber ==
    /\ pc = "call"
    /\ res' = clean_claim_number(arg)
    /\ pc' = "ret"
    /\ UNCHANGED <<arg, ledger>>

NextClean == CleanClaimNumber

SpecClean == InitClean /\ [][NextClean]_vars

\* the value is made of decimal digits only, and has one at least
PurelyNumeric(s) == s # <<>> /\ \A i \in 1..Len(s) : s[i] \in {"1", "2"}

\* C26 as stated: "12" is rejected, "1234" and "ABC123" pass, "Gross" is
\* rejected.
C26_ShortNumericRejected ==
    pc = "ret" =>
        /\ arg = <<"1", "2">> => res = Null
        /\ arg = <<"1", "2", "3", "4">> => res = <<"1", "2", "3", "4">>
        /\ arg = <<"A", "B", "C", "1", "2", "3">> => res = <<"A", "B", "C", "1", "2", "3">>
        /\ arg = <<"G", "r", "o", "s", "s">> => res = Null

\* C26: "12" is returned as it is, being purely numeric; "1234" and "ABC123"
\* are returned, "Gross" is rejected; and a value of fewer than four
\* characters (after trimming) is rejected exactly when it is not purely
\* numeric.
C26_ShortRejectedUnlessNumeric ==
    pc = "ret" =>
        /\ arg = <<"1", "2">> => res = <<"1", "2">>
        /\ arg = <<"1", "2", "3", "4">> => res = <<"1", "2", "3", "4">>
        /\ arg = <<"A", "B", "C", "1", "2", "3">> => res = <<"A", "B", "C", "1", "2", "3">>
        /\ arg = <<"G", "r", "o", "s", "s">> => res = Null
        /\ (arg # Null /\ arg # <<>> /\ Len(strip(arg)) < 4) =>
              IF PurelyNumeric(strip(arg)) THEN res = strip(arg) ELSE res = Null

\* the cleaner was called with "12" and returned it
C26_Witness == pc = "ret" /\ arg = <<"1", "2">> /\ res = <<"1", "2">>

---------------------------------------------------------------------------
(* Balance of settled records (C27) *)

\* C27: every record of the ledger whose status is "Settled" has a balance
\* of zero.
C27_SettledHasZeroBalance ==
    \A i \in DOMAIN claims :
        claims[i].claim_status = "Settled" => claims[i].balance_amount = 0

---------------------------------------------------------------------------
(* Messages seen again by a later cycle (C28) *)

\* the message has been processed before: a log entry names it
ProcessedBefore(uid) == \E k \in DOMAIN logs : logs[k].email_subject = uid

\* C28: processing a message that was processed before (same identifier,
\* timestamp and draft), whatever was processed in between, leaves the number
\* of records of the ledger unchanged.
C28_ReplayCreatesNoRecord ==
    [][(steps' # steps /\ ProcessedBefore(ev'.uid)) => Len(claims') = Len(claims)]_vars

---------------------------------------------------------------------------
(* The two names of the balance (C29) *)

\* C29: every record of the ledger has outstanding_amount equal to
\* balance_amount.
C29_OutstandingEqualsBalance ==
    \A i \in DOMAIN claims : claims[i].outstanding_amount = claims[i].balance_amount

\* a merge has written a new non-zero balance, the draft's, onto a record that
\* was created from another draft, and outstanding_amount went with it
C29_Witness ==
    /\ ev.kind = "merged"
    /\ LET row == RowById(claims, ev.id)
       IN  /\ row.balance_amount = LastDraft.balance_amount
           /\ row.balance_amount # 0
           /\ row.outstanding_amount = row.balance_amount
           /\ \E h \in DOMAIN history :
                 /\ history[h].remarks = "Initial Create"
                 /\ history[h].email_uid # ev.uid
                 /\ \E raw \in DraftsOf(history[h].email_uid) :
                       /\ Reconciled[raw].balance_amount # row.balance_amount
                       /\ Reconciled[raw].claim_number = history[h].claim_number
    /\ Len(claims) = 1

---------------------------------------------------------------------------
(* apply_financial_formulas applied to its own result (C30) *)

\* no amount of the draft is a negative number
NonNegativeAmounts(data) ==
    \A f \in financial_fields : data[f].t = "num" => data[f].n >= 0

\* C30: for a draft with non-negative amounts and any status, applying
\* apply_financial_formulas to its own result returns the same eight
\* financial fields as the first application did.
C30_FormulasIdempotent ==
    (pc = "again" /\ NonNegativeAmounts(arg)) =>
        \A f \in financial_fields : res[f] = apply_financial_formulas(arg)[f]

\* the second application ran on the result of a Settled draft whose bill was
\* taken from the settled amount and whose extracted rejected amount was kept
\* within the tolerance
C30_Witness ==
    /\ pc = "again"
    /\ NonNegativeAmounts(arg)
    /\ arg.claim_status = "Settled"
    /\ arg.total_bill_amount = Num(0) /\ arg.claim_amount = Num(0)
    /\ arg.settled_amount = Num(10) /\ arg.rejected_amount = Num(5)
    /\ res.total_bill_amount = 10 /\ res.rejected_amount = 5

====
